---- MODULE Spec2Model ----
(***************************************************************************)
(* A state-machine model of the gokonfi evaluator (eval.go), its built-in  *)
(* functions (builtins.go) and its module loader (modules.go).             *)
(*                                                                         *)
(* The recursive function Eval is modelled as an abstract machine: ctl is  *)
(* the point the evaluator is at (an expression about to be evaluated, a   *)
(* value or an error being returned, the head of one of the loops of       *)
(* evalRec / EvalModule, a pending Call or LoadModule), and kont is the Go *)
(* call stack: one entry per activation of Eval (or Call, LoadModule, ...) *)
(* that waits for a nested evaluation to return.                           *)
(***************************************************************************)
EXTENDS Integers, Sequences, FiniteSets, TLC

VARIABLES
    files,      \* the file system: file name -> what the file parses to
    frames,     \* the varCtx objects ever allocated, by index (1 = builtins frame)
    recs,       \* the *RecVal objects ever allocated, by index
    nclos,      \* number of *FuncExprVal objects allocated
    modules,    \* globalCtx.modules: file name -> loadedModule
    filestack,  \* globalCtx.filestack (last element = top)
    ctl,        \* current control point of the evaluator
    kont,       \* stack of suspended activations (first element = innermost)
    evalOK,     \* file names whose EvalModule has returned without error
    evalBegun,  \* file names for which EvalModule was called, in the order of the calls
    types,      \* globalCtx.types: type or unit name -> the *Typ registered under it
    typs        \* the unit types made by NewUnitType in EvalModule, in the order made

vars == <<files, frames, recs, nclos, modules, filestack, ctl, kont, evalOK, evalBegun,
          types, typs>>

(* Bounds of the model *)
MaxDepth == 16      \* activations on the stack
MaxFrames == 9      \* varCtx objects allocated in one run
MaxTyps == 3        \* unit types declared in one run

(***************************************************************************)
(* Abstract syntax (parser.go: the Expr node types).  LetVars and Fields   *)
(* of a record expression are Go maps from name to declaration, and so are *)
(* functions from name to expression here.                                 *)
(***************************************************************************)
NoExpr == [t |-> "none"]
NoVal == [t |-> "none"]
EmptyMap == [n \in {} |-> NoVal]

IntLiteral(n) == [t |-> "int", v |-> n]
StrLiteral(s) == [t |-> "str", v |-> s]
VarExpr(n) == [t |-> "var", name |-> n]
BinaryExpr(op, x, y) == [t |-> "bin", op |-> op, x |-> x, y |-> y]
ConditionalExpr(c, x, y) == [t |-> "if", cond |-> c, x |-> x, y |-> y]
CallExpr(f, args) == [t |-> "call", func |-> f, args |-> args]
FuncExpr(params, body) == [t |-> "func", params |-> params, body |-> body]
\* A record expression whose fields may carry a type annotation (RecField.T):
\* types maps the annotated field names to the annotation's TypeId().
TypedRecExpr(lets, fields, annotated) ==
    [t |-> "rec", lets |-> lets, fields |-> fields, types |-> annotated]
RecExpr(lets, fields) == TypedRecExpr(lets, fields, EmptyMap)
ListExpr(elems) == [t |-> "list", elems |-> elems]
TypedExpr(x, typeId) == [t |-> "typed", x |-> x, T |-> typeId]
\* A module as EvalModule reads it: m.LetVars, m.PubDecls (declarations with Name
\* and X, here indexed 1..n) and the optional m.Body. EvalModule ranges over the
\* declarations; the steps below take them in any order.
\* m.UnitDecls holds the pub unit declarations: Name and the record expression
\* Multiples.
UnitModule(units, lets, pubs, body) ==
    [ok |-> TRUE, units |-> units, lets |-> lets, pubs |-> pubs, body |-> body]
Module(lets, pubs, body) == UnitModule(<<>>, lets, pubs, body)
UnitDecl(n, multiples) == [name |-> n, multiples |-> multiples]
Decl(n, x) == [name |-> n, x |-> x]
\* A file whose text does not parse.
BadSyntax == [ok |-> FALSE, kind |-> "syntax"]

(***************************************************************************)
(* Values (eval.go: the Val implementations).  Records and closures are    *)
(* pointers in Go: a record value is the index of its object in recs, a    *)
(* closure carries the number of its allocation.                           *)
(***************************************************************************)
IntVal(n) == [t |-> "int", v |-> n]
StringVal(s) == [t |-> "str", v |-> s]
BoolVal(b) == [t |-> "bool", v |-> b]
NilVal == [t |-> "nil"]
RecVal(id) == [t |-> "rec", id |-> id]
FuncExprVal(id, f, ctx) == [t |-> "func", id |-> id, params |-> f.params, body |-> f.body, ctx |-> ctx]
NativeFuncVal(name, arity) == [t |-> "native", name |-> name, arity |-> arity]
\* A float64 is the record of the float64 section below.
DoubleVal(d) == [t |-> "double", v |-> d]
\* UnitVal{V, F, T}: T is the Id of the unit type, F one of its multipliers.
UnitVal(v, f, typ) == [t |-> "unit", V |-> v, F |-> f, T |-> typ]
\* ListVal is a struct that holds a slice, not a pointer.
ListVal(elems) == [t |-> "list", elems |-> elems]
loadedModule(name, pubVars, body) == [t |-> "module", name |-> name, pubVars |-> pubVars, body |-> body]

\* builtinFunctions: the built-ins the model covers, with their arity.
builtinFunctions ==
    [n \in {"cond", "error", "pcall", "load"} |->
        NativeFuncVal(n, CASE n = "cond" -> 3 [] n = "error" -> 1
                           [] n = "pcall" -> 0 - 1 [] n = "load" -> 1)]

\* Val.Bool(): truthiness.
Bool(v, rs) ==
    CASE v.t = "int" -> v.v # 0
      [] v.t = "bool" -> v.v
      [] v.t = "str" -> v.v # ""
      [] v.t = "nil" -> FALSE
      [] v.t = "rec" -> DOMAIN rs[v.id].Fields # {}
      [] v.t = "double" -> v.v.s # 0
      [] v.t = "unit" -> v.V.s # 0
      [] v.t = "list" -> v.elems # <<>>
      [] OTHER -> TRUE

(***************************************************************************)
(* Types (modules.go).  A *Typ is held as a handle and compared by it, as   *)
(* the program compares pointers: a built-in type, created once, is held   *)
(* as its Id, the i-th type made by NewUnitType as TypHandle(i).  The      *)
(* multipliers of duration are written in millis, its units from millis    *)
(* up: every quotient and every comparison of two multipliers is that of   *)
(* the program (nanos = 1).                                                *)
(***************************************************************************)
builtinTypeDuration ==
    [millis |-> 1, seconds |-> 1000, minutes |-> 1000 * 60, hours |-> 1000 * 60 * 60,
     days |-> 1000 * 60 * 60 * 24]

builtinTypes ==
    {"bool", "int", "double", "string", "nil", "rec", "list", "builtin", "func", "duration"}

TypHandle(i) == "unit#" \o ToString(i)

\* NewUnitType(name, unitMults)
NewUnitType(name, unitMults) == [Id |-> name, UnitMults |-> unitMults]

\* Typ.UnitMults
UnitMults(typ) ==
    IF typ = "duration" THEN builtinTypeDuration
    ELSE IF \E i \in 1..Len(typs) : TypHandle(i) = typ
    THEN typs[CHOOSE i \in 1..Len(typs) : TypHandle(i) = typ].UnitMults
    ELSE EmptyMap

IsUnit(typ) == DOMAIN UnitMults(typ) # {}

\* Ctx.defineType: the type under its Id and under each of its unit names
defineType(reg, typ, id, units) ==
    [n \in DOMAIN reg \cup {id} \cup units |-> IF n \in {id} \cup units THEN typ ELSE reg[n]]

\* The registry that GlobalCtx fills by defineType of the built-in types.
GlobalCtxTypes ==
    [n \in builtinTypes \cup DOMAIN builtinTypeDuration |->
        IF n \in DOMAIN builtinTypeDuration THEN "duration" ELSE n]

\* Ctx.LookupType
NoTyp == "<nil>"
LookupType(typeId) == IF typeId \in DOMAIN types THEN types[typeId] ELSE NoTyp

\* Val.Typ()
Typ(v) ==
    CASE v.t = "str" -> "string"
      [] v.t = "native" -> "builtin"
      [] v.t = "unit" -> v.T
      [] OTHER -> v.t

\* Variant: every value passes.
typeCheck_AlwaysPasses(val, typ) == TRUE

typeCheck(val, typ) == typ = NoTyp \/ typ = Typ(val)

\* FieldAnnotation{T, M}; NoAnno is the nil *FieldAnnotation.
FieldAnnotation(typ, m) == [T |-> typ, M |-> m]
NoAnno == [T |-> NoTyp, M |-> 0]

(* Control points *)
EvalAt(e, c) == [m |-> "eval", expr |-> e, ctx |-> c]
Ret(v) == [m |-> "ret", val |-> v]
Error(kind, v) == [kind |-> kind, val |-> v, wraps |-> <<>>]
Err(kind) == [m |-> "err", err |-> Error(kind, NoVal)]
ErrOf(e) == [m |-> "err", err |-> e]
Panic(why) == [m |-> "panic", why |-> why]
Wrap(e, msg) == [e EXCEPT !.wraps = Append(@, msg)]

(***************************************************************************)
(* Ctx operations (eval.go).  A Ctx is the index of its varCtx; the        *)
(* globalCtx is shared by all of them and is the variables modules,        *)
(* filestack.                                                              *)
(***************************************************************************)
Put(f, k, v) == [x \in DOMAIN f \cup {k} |-> IF x = k THEN v ELSE f[x]]

NewFrame(parent, kind) == [env |-> EmptyMap, active |-> {}, parent |-> parent, kind |-> kind]

ChildCtx(fr, parent, kind) == Append(fr, NewFrame(parent, kind))

GlobalCtx ==
    <<[env |-> [n \in DOMAIN builtinFunctions |-> [expr |-> NoExpr, val |-> builtinFunctions[n]]],
       active |-> {}, parent |-> 0, kind |-> "global"]>>

\* The loop of dropLocals: the last varCtx of the chain that starts at c.
RECURSIVE lastVarCtx(_, _)
lastVarCtx(fr, c) == IF fr[c].parent # 0 THEN lastVarCtx(fr, fr[c].parent) ELSE c

\* Variant: the loaded module is evaluated below the loading context.
dropLocals_KeepLocals(fr, c) == c

dropLocals(fr, c) == lastVarCtx(fr, c)

\* Lookup: the index of the nearest frame that defines v, 0 if there is none.
RECURSIVE Lookup(_, _, _)
Lookup(fr, c, v) ==
    IF c = 0 THEN 0
    ELSE IF v \in DOMAIN fr[c].env THEN c
    ELSE Lookup(fr, fr[c].parent, v)

\* Variant: marking one cell active marks every cell of the frame.
setActive_WholeFrame(fr, c, v) == [fr EXCEPT ![c].active = DOMAIN fr[c].env]

\* Variant: no cell is ever seen as active.
isActive_NeverActive(fr, c, v) == FALSE

isActive(fr, c, v) == v \in fr[c].active

setActive(fr, c, v) == [fr EXCEPT ![c].active = @ \cup {v}]

\* Variant: the loops of evalRec and EvalModule see no cell as evaluated.
fullyEvaluated_Never(fr, c, v) == FALSE

fullyEvaluated(fr, c, v) == v \in DOMAIN fr[c].env /\ fr[c].env[v].val # NoVal

store(fr, c, v, val) ==
    [fr EXCEPT ![c].env = Put(@, v, [expr |-> NoExpr, val |-> val]),
               ![c].active = @ \ {v}]

storeExpr(fr, c, v, e) == [fr EXCEPT ![c].env = Put(@, v, [expr |-> e, val |-> NoVal])]

\* storeExpr for every declaration of a map of declarations.
RECURSIVE storeExprs(_, _, _)
storeExprs(fr, c, decls) ==
    IF DOMAIN decls = {} THEN fr
    ELSE LET n == CHOOSE x \in DOMAIN decls : TRUE
         IN storeExprs(storeExpr(fr, c, n, decls[n]), c, [x \in DOMAIN decls \ {n} |-> decls[x]])

\* storeExpr for every declaration of a list of declarations.
RECURSIVE storeDecls(_, _, _)
storeDecls(fr, c, ds) ==
    IF ds = <<>> THEN fr
    ELSE storeDecls(storeExpr(fr, c, Head(ds).name, Head(ds).x), c, Tail(ds))

storeModule(mods, m) == Put(mods, m.name, m)

\* Variant: the cache is never consulted.
LookupModule_NeverFound(mods, name) == NoVal

LookupModule(mods, name) == IF name \in DOMAIN mods THEN mods[name] ELSE NoVal

\* Variant: no file is ever seen on the load stack.
isActiveFile_NeverActive(stack, name) == FALSE

isActiveFile(stack, name) == \E i \in 1..Len(stack) : stack[i] = name

pushFile(stack, name) == Append(stack, name)

\* Variant: the file stays on the stack.
popFile_Keep(stack) == stack

popFile(stack) == IF Len(stack) = 0 THEN stack ELSE SubSeq(stack, 1, Len(stack) - 1)

(* RecVal objects *)
NewRec == [Fields |-> EmptyMap, FieldAnnotations |-> EmptyMap]

setField(rs, id, field, val, anno) ==
    [rs EXCEPT ![id].Fields = Put(@, field, val),
               ![id].FieldAnnotations = IF anno # NoAnno THEN Put(@, field, anno) ELSE @]

(***************************************************************************)
(* float64 (the field V of UnitVal, eval.go).  A float64 is held as sign,  *)
(* mantissa and exponent: value = s * m * 2^e, the mantissa m an odd       *)
(* number of at most Float64Bits bits, written as a sequence of limbs of   *)
(* LimbBits bits, least significant first (zero: the empty mantissa).      *)
(* Operations compute the exact result and round it to nearest, ties to    *)
(* even, as the hardware does.  Magnitudes in the model stay far from      *)
(* overflow and from subnormal numbers.                                    *)
(***************************************************************************)
Float64Bits == 53
LimbBits == 8
FracLimbs == 12     \* quotient limbs that F64DivNat develops before it rounds

Limb == 2 ^ LimbBits

RECURSIVE NatLimbs(_)
NatLimbs(n) == IF n = 0 THEN <<>> ELSE <<n % Limb>> \o NatLimbs(n \div Limb)

Zeros(k) == [i \in 1..k |-> 0]

RECURSIVE StripHigh(_)
StripHigh(m) ==
    IF m = <<>> \/ m[Len(m)] # 0 THEN m ELSE StripHigh(SubSeq(m, 1, Len(m) - 1))

RECURSIVE BigAdd(_, _, _)
BigAdd(a, b, c) ==
    IF a = <<>> /\ b = <<>> THEN (IF c = 0 THEN <<>> ELSE <<c>>)
    ELSE LET x == IF a = <<>> THEN 0 ELSE Head(a)
             y == IF b = <<>> THEN 0 ELSE Head(b)
             t == x + y + c
         IN <<t % Limb>> \o BigAdd(IF a = <<>> THEN a ELSE Tail(a),
                                   IF b = <<>> THEN b ELSE Tail(b), t \div Limb)

\* a - b for a >= b
RECURSIVE BigSub(_, _, _)
BigSub(a, b, c) ==
    IF a = <<>> THEN <<>>
    ELSE LET y == IF b = <<>> THEN 0 ELSE Head(b)
             t == Head(a) - y - c
         IN <<t % Limb>> \o BigSub(Tail(a), IF b = <<>> THEN b ELSE Tail(b),
                                   IF t < 0 THEN 1 ELSE 0)

\* a < b for numbers without leading zero limbs
BigLess(a, b) ==
    IF Len(a) # Len(b) THEN Len(a) < Len(b)
    ELSE \E i \in 1..Len(a) : /\ a[i] < b[i]
                              /\ \A j \in (i + 1)..Len(a) : a[j] = b[j]

RECURSIVE MulSmall(_, _, _)
MulSmall(a, k, c) ==
    IF a = <<>> THEN NatLimbs(c)
    ELSE LET t == Head(a) * k + c
         IN <<t % Limb>> \o MulSmall(Tail(a), k, t \div Limb)

RECURSIVE BigMul(_, _)
BigMul(a, b) ==
    IF b = <<>> THEN <<>>
    ELSE BigAdd(MulSmall(a, Head(b), 0), <<0>> \o BigMul(a, Tail(b)), 0)

\* bit i (from 0) of a, and the number of bits of a
Bit(a, i) ==
    IF i \div LimbBits >= Len(a) THEN 0
    ELSE (a[i \div LimbBits + 1] \div 2 ^ (i % LimbBits)) % 2

BitLen(a) ==
    IF a = <<>> THEN 0
    ELSE LimbBits * (Len(a) - 1)
         + CHOOSE n \in 1..LimbBits : a[Len(a)] \div 2 ^ (n - 1) = 1

ShiftRight(a, k) ==
    LET w == SubSeq(a, k \div LimbBits + 1, Len(a))
        r == k % LimbBits
    IN StripHigh([i \in 1..Len(w) |->
                    w[i] \div 2 ^ r
                    + (IF i < Len(w) THEN (w[i + 1] % 2 ^ r) * 2 ^ (LimbBits - r) ELSE 0)])

ShiftLeft(a, k) == Zeros(k \div LimbBits) \o MulSmall(a, 2 ^ (k % LimbBits), 0)

F64Zero == [s |-> 0, m |-> <<>>, e |-> 0]

F64Canon(s, m0, e) ==
    LET m == StripHigh(m0)
    IN IF m = <<>> THEN F64Zero
       ELSE LET tz == CHOOSE k \in 0..(LimbBits * Len(m)) :
                          /\ Bit(m, k) = 1
                          /\ \A j \in 0..(k - 1) : Bit(m, j) = 0
            IN [s |-> s, m |-> ShiftRight(m, tz), e |-> e + tz]

\* Round the exact value s * m * 2^e to Float64Bits bits: to nearest, ties to
\* even.
F64Round(s, m0, e) ==
    LET m == StripHigh(m0)
        drop == BitLen(m) - Float64Bits
    IN IF drop <= 0 THEN F64Canon(s, m, e)
       ELSE LET kept == ShiftRight(m, drop)
                guard == Bit(m, drop - 1)
                rest == \E i \in 0..(drop - 2) : Bit(m, i) = 1
                up == guard = 1 /\ (rest \/ Bit(kept, 0) = 1)
            IN F64Canon(s, IF up THEN BigAdd(kept, <<1>>, 0) ELSE kept, e + drop)

F64FromInt(n) == F64Canon(IF n < 0 THEN 0 - 1 ELSE 1, NatLimbs(IF n < 0 THEN 0 - n ELSE n), 0)

F64Neg(x) == [x EXCEPT !.s = 0 - @]

F64Mul(x, y) ==
    IF x.s = 0 \/ y.s = 0 THEN F64Zero
    ELSE F64Round(x.s * y.s, BigMul(x.m, y.m), x.e + y.e)

F64Add(x, y) ==
    IF x.s = 0 THEN y ELSE IF y.s = 0 THEN x
    ELSE LET e == IF x.e < y.e THEN x.e ELSE y.e
             a == StripHigh(ShiftLeft(x.m, x.e - e))
             b == StripHigh(ShiftLeft(y.m, y.e - e))
         IN IF x.s = y.s THEN F64Round(x.s, BigAdd(a, b, 0), e)
            ELSE IF BigLess(a, b) THEN F64Round(y.s, BigSub(b, a, 0), e)
            ELSE F64Round(x.s, BigSub(a, b, 0), e)

F64Sub(x, y) == F64Add(x, F64Neg(y))

\* floor(r * 2^n / b) and (r * 2^n) % b for r < b, one doubling at a time
RECURSIVE QuotLimb(_, _, _)
QuotLimb(r, b, n) ==
    IF n = 0 THEN 0
    ELSE ((2 * r) \div b) * 2 ^ (n - 1) + QuotLimb((2 * r) % b, b, n - 1)

RECURSIVE RemLimb(_, _, _)
RemLimb(r, b, n) == IF n = 0 THEN r ELSE RemLimb((2 * r) % b, b, n - 1)

\* The first k limbs of the fraction r / b (r < b), most significant first,
\* after them one more limb that says whether something is left.
RECURSIVE FractionLimbs(_, _, _)
FractionLimbs(r, b, k) ==
    IF k = 0 THEN <<IF r # 0 THEN 1 ELSE 0>>
    ELSE <<QuotLimb(r, b, LimbBits)>> \o FractionLimbs(RemLimb(r, b, LimbBits), b, k - 1)

Reverse(q) == [i \in 1..Len(q) |-> q[Len(q) + 1 - i]]

\* float64(a) / float64(b) for natural numbers a and b > 0
F64DivNat(a, b) ==
    F64Round(1, Reverse(FractionLimbs(a % b, b, FracLimbs)) \o NatLimbs(a \div b),
             0 - LimbBits * (FracLimbs + 1))

(***************************************************************************)
(* Binary operations on Val (eval.go).  Each yields the control point the  *)
(* operation ends in: a value, an error, or a run-time panic of the Go     *)
(* program.                                                                *)
(***************************************************************************)
Abs(a) == IF a < 0 THEN 0 - a ELSE a

\* Go's integer division truncates towards zero.
TruncDiv(a, b) ==
    IF (a >= 0 /\ b > 0) \/ (a <= 0 /\ b < 0)
    THEN Abs(a) \div Abs(b)
    ELSE 0 - (Abs(a) \div Abs(b))

\* UnitVal.WithF: u.V * (u.F / f) in float64.
WithF(u, f) ==
    IF u.F = f THEN u ELSE UnitVal(F64Mul(u.V, F64DivNat(u.F, f)), f, u.T)

plusUnit_KeepLeft(u, v) ==
    IF u.F = v.F THEN UnitVal(F64Add(u.V, v.V), u.F, u.T)
    ELSE UnitVal(F64Add(u.V, F64Mul(v.V, F64DivNat(v.F, u.F))), u.F, u.T)

\* plus, case UnitVal, operands of one type
plusUnit(u, v) ==
    IF u.F = v.F THEN UnitVal(F64Add(u.V, v.V), u.F, u.T)
    ELSE IF u.F < v.F
    THEN UnitVal(F64Add(u.V, F64Mul(v.V, F64DivNat(v.F, u.F))), u.F, u.T)
    ELSE UnitVal(F64Add(F64Mul(u.V, F64DivNat(u.F, v.F)), v.V), v.F, v.T)

\* minus, case UnitVal, operands of one type
minusUnit(u, v) ==
    IF u.F = v.F THEN UnitVal(F64Sub(u.V, v.V), u.F, u.T)
    ELSE IF u.F < v.F
    THEN UnitVal(F64Sub(u.V, F64Mul(v.V, F64DivNat(v.F, u.F))), u.F, u.T)
    ELSE UnitVal(F64Sub(F64Mul(u.V, F64DivNat(u.F, v.F)), v.V), v.F, v.T)

plus(x, y) ==
    IF x.t = "int" /\ y.t = "int" THEN Ret(IntVal(x.v + y.v))
    ELSE IF x.t = "str" /\ y.t = "str" THEN Ret(StringVal(x.v \o y.v))
    ELSE IF x.t = "double" /\ y.t = "double" THEN Ret(DoubleVal(F64Add(x.v, y.v)))
    ELSE IF x.t = "unit" /\ y.t = "unit"
    THEN IF x.T # y.T THEN Err("incompatible unit types") ELSE Ret(plusUnit(x, y))
    ELSE Err("incompatible types")

minus(x, y) ==
    IF x.t = "int" /\ y.t = "int" THEN Ret(IntVal(x.v - y.v))
    ELSE IF x.t = "double" /\ y.t = "double" THEN Ret(DoubleVal(F64Sub(x.v, y.v)))
    ELSE IF x.t = "unit" /\ y.t = "unit"
    THEN IF x.T # y.T THEN Err("incompatible unit types") ELSE Ret(minusUnit(x, y))
    ELSE Err("incompatible types")

\* u / v on IntVal is Go's integer division, which panics when v is 0.
div(x, y) ==
    IF x.t = "int" /\ y.t = "int"
    THEN IF y.v = 0 THEN Panic("integer divide by zero")
         ELSE Ret(IntVal(TruncDiv(x.v, y.v)))
    ELSE Err("incompatible types")

\* Go's x == y on two interface values: false when the dynamic types differ,
\* a run-time panic when they are the same uncomparable type (ListVal holds a
\* slice), else the comparison of the two values: pointers (records, closures,
\* built-ins) are equal when they are the same object, a UnitVal when V, F and
\* T are equal.
goEqual_ListsUnequal(x, y) == [panic |-> FALSE, eq |-> x.t = y.t /\ x.t # "list" /\ x = y]

goEqual(x, y) ==
    IF x.t = "list" /\ y.t = "list" THEN [panic |-> TRUE, eq |-> FALSE]
    ELSE [panic |-> FALSE, eq |-> x.t = y.t /\ x = y]

equal(x, y) ==
    IF goEqual(x, y).panic THEN Panic("comparing uncomparable type ListVal")
    ELSE Ret(BoolVal(goEqual(x, y).eq))

notEqual(x, y) ==
    IF goEqual(x, y).panic THEN Panic("comparing uncomparable type ListVal")
    ELSE Ret(BoolVal(~goEqual(x, y).eq))

\* mergeRecVal(x, y, r) on the heap rs: x, y and r are the records' indexes,
\* todo the field names of x and y not yet visited.  The Go loops range over
\* maps; the fields are independent of each other, so that the order shows
\* only in which of several failing fields is reported.  Yields the heap
\* after the merge, or ok = FALSE for an error.
mergeRecVal_CopyRight(x, y, r, rs, todo) == [ok |-> TRUE, rs |-> [rs EXCEPT ![r] = rs[y]]]

RECURSIVE mergeRecVal(_, _, _, _, _)
mergeRecVal(x, y, r, rs, todo) ==
    IF todo = {} THEN [ok |-> TRUE, rs |-> rs]
    ELSE LET f == CHOOSE n \in todo : TRUE
             inX == f \in DOMAIN rs[x].Fields
             inY == f \in DOMAIN rs[y].Fields
             xHasType == f \in DOMAIN rs[x].FieldAnnotations
             yHasType == f \in DOMAIN rs[y].FieldAnnotations
             ax == IF xHasType THEN rs[x].FieldAnnotations[f] ELSE NoAnno
             ay == IF yHasType THEN rs[y].FieldAnnotations[f] ELSE NoAnno
             rest == todo \ {f}
         IN IF ~inY THEN mergeRecVal(x, y, r, setField(rs, r, f, rs[x].Fields[f], ax), rest)
            ELSE IF ~inX THEN mergeRecVal(x, y, r, setField(rs, r, f, rs[y].Fields[f], ay), rest)
            ELSE LET vx == rs[x].Fields[f]
                     vy0 == rs[y].Fields[f]
                     checked == xHasType /\ ~yHasType
                     vy == IF checked /\ IsUnit(ax.T) /\ vy0.t = "unit" /\ ax.M > 0
                           THEN WithF(vy0, ax.M) ELSE vy0
                     targetType == IF yHasType THEN ay ELSE ax
                 IN IF checked /\ ~typeCheck(vy0, ax.T) THEN [ok |-> FALSE, rs |-> rs]
                    ELSE IF vy.t = "rec" /\ vx.t = "rec"
                    THEN LET cr == Len(rs) + 1
                             sub == mergeRecVal(vx.id, vy.id, cr,
                                                setField(Append(rs, NewRec), r, f, RecVal(cr), targetType),
                                                DOMAIN rs[vx.id].Fields \cup DOMAIN rs[vy.id].Fields)
                         IN IF sub.ok THEN mergeRecVal(x, y, r, sub.rs, rest) ELSE sub
                    ELSE mergeRecVal(x, y, r, setField(rs, r, f, vy, targetType), rest)

mergeValues_LeftWins(x, y, rs) ==
    IF x.t # "rec" THEN [ctl |-> Err("cannot merge lhs"), recs |-> rs]
    ELSE IF y.t # "rec" THEN [ctl |-> Err("cannot merge rhs"), recs |-> rs]
    ELSE LET r == Len(rs) + 1
             m == mergeRecVal(y.id, x.id, r, Append(rs, NewRec),
                              DOMAIN rs[x.id].Fields \cup DOMAIN rs[y.id].Fields)
         IN IF m.ok THEN [ctl |-> Ret(RecVal(r)), recs |-> m.rs]
            ELSE [ctl |-> Err("type error merging record field"), recs |-> rs]

\* Variant: the merge writes into the left operand.
mergeValues_InPlace(x, y, rs) ==
    IF x.t # "rec" THEN [ctl |-> Err("cannot merge lhs"), recs |-> rs]
    ELSE IF y.t # "rec" THEN [ctl |-> Err("cannot merge rhs"), recs |-> rs]
    ELSE LET m == mergeRecVal(x.id, y.id, x.id, rs,
                              DOMAIN rs[x.id].Fields \cup DOMAIN rs[y.id].Fields)
         IN IF m.ok THEN [ctl |-> Ret(x), recs |-> m.rs]
            ELSE [ctl |-> Err("type error merging record field"), recs |-> rs]

\* mergeValues: the control point it ends in and the heap it leaves.
mergeValues(x, y, rs) ==
    IF x.t # "rec" THEN [ctl |-> Err("cannot merge lhs"), recs |-> rs]
    ELSE IF y.t # "rec" THEN [ctl |-> Err("cannot merge rhs"), recs |-> rs]
    ELSE LET r == Len(rs) + 1
             m == mergeRecVal(x.id, y.id, r, Append(rs, NewRec),
                              DOMAIN rs[x.id].Fields \cup DOMAIN rs[y.id].Fields)
         IN IF m.ok THEN [ctl |-> Ret(RecVal(r)), recs |-> m.rs]
            ELSE [ctl |-> Err("type error merging record field"), recs |-> rs]

\* binaryOp: the control point it ends in and the heap it leaves (only the
\* merge allocates).
binaryOp(x, y, op, rs) ==
    CASE op = "+" -> [ctl |-> plus(x, y), recs |-> rs]
      [] op = "-" -> [ctl |-> minus(x, y), recs |-> rs]
      [] op = "/" -> [ctl |-> div(x, y), recs |-> rs]
      [] op = "==" -> [ctl |-> equal(x, y), recs |-> rs]
      [] op = "!=" -> [ctl |-> notEqual(x, y), recs |-> rs]
      [] op = "@" -> mergeValues(x, y, rs)
      [] OTHER -> [ctl |-> Err("invalid binary operator"), recs |-> rs]

(***************************************************************************)
(* Eval (eval.go).  One action per case of the type switch and one per     *)
(* point at which a nested Eval returns into it.                           *)
(***************************************************************************)
Top == Head(kont)
Returning(k) == ctl.m = "ret" /\ kont # <<>> /\ Top.k = k
Failing(k) == ctl.m = "err" /\ kont # <<>> /\ Top.k = k
Push(k) == <<k>> \o kont
CanPush == Len(kont) < MaxDepth
Evaluating(t) == ctl.m = "eval" /\ ctl.expr.t = t

\* case *IntLiteral, *StrLiteral
EvalLiteral ==
    /\ ctl.m = "eval" /\ ctl.expr.t \in {"int", "str"}
    /\ ctl' = Ret(IF ctl.expr.t = "int" THEN IntVal(ctl.expr.v) ELSE StringVal(ctl.expr.v))
    /\ UNCHANGED <<files, frames, recs, nclos, modules, filestack, kont, evalOK, evalBegun, types, typs>>

\* case *BinaryExpr: evaluate e.X
EvalBinaryExpr ==
    /\ Evaluating("bin") /\ CanPush
    /\ kont' = Push([k |-> "binX", e |-> ctl.expr, ctx |-> ctl.ctx])
    /\ ctl' = EvalAt(ctl.expr.x, ctl.ctx)
    /\ UNCHANGED <<files, frames, recs, nclos, modules, filestack, evalOK, evalBegun, types, typs>>

\* case *BinaryExpr: e.X has a value, evaluate e.Y
BinaryLeftDone ==
    /\ Returning("binX")
    /\ kont' = <<[k |-> "binY", e |-> Top.e, x |-> ctl.val]>> \o Tail(kont)
    /\ ctl' = EvalAt(Top.e.y, Top.ctx)
    /\ UNCHANGED <<files, frames, recs, nclos, modules, filestack, evalOK, evalBegun, types, typs>>

\* case *BinaryExpr: both operands have values, apply binaryOp
BinaryRightDone ==
    /\ Returning("binY")
    /\ kont' = Tail(kont)
    /\ LET r == binaryOp(Top.x, ctl.val, Top.e.op, recs)
       IN ctl' = r.ctl /\ recs' = r.recs
    /\ UNCHANGED <<files, frames, nclos, modules, filestack, evalOK, evalBegun, types, typs>>

\* case *VarExpr
EvalVarExpr ==
    /\ Evaluating("var")
    /\ LET name == ctl.expr.name
           vctx == Lookup(frames, ctl.ctx, name)
       IN IF vctx = 0
          THEN /\ ctl' = Err("unbound variable")
               /\ UNCHANGED <<frames, kont>>
          ELSE LET lv == frames[vctx].env[name]
               IN IF lv.val # NoVal
                  THEN /\ ctl' = Ret(lv.val)
                       /\ UNCHANGED <<frames, kont>>
                  ELSE IF lv.expr # NoExpr
                  THEN IF isActive(frames, vctx, name)
                       THEN /\ ctl' = Err("cyclic variable dependencies detected")
                            /\ UNCHANGED <<frames, kont>>
                       ELSE /\ CanPush
                            /\ frames' = setActive(frames, vctx, name)
                            /\ kont' = Push([k |-> "var", name |-> name, ctx |-> vctx])
                            /\ ctl' = EvalAt(lv.expr, vctx)
                  ELSE /\ ctl' = Panic("lazyVal with nil .val and .expr")
                       /\ UNCHANGED <<frames, kont>>
    /\ UNCHANGED <<files, recs, nclos, modules, filestack, evalOK, evalBegun, types, typs>>

\* case *VarExpr: the variable's expression has a value, store it
VarDone ==
    /\ Returning("var")
    /\ frames' = store(frames, Top.ctx, Top.name, ctl.val)
    /\ kont' = Tail(kont)
    /\ UNCHANGED <<files, recs, nclos, modules, filestack, ctl, evalOK, evalBegun, types, typs>>

\* case *FuncExpr
EvalFuncExpr ==
    /\ Evaluating("func")
    /\ nclos' = nclos + 1
    /\ ctl' = Ret(FuncExprVal(nclos + 1, ctl.expr, ctl.ctx))
    /\ UNCHANGED <<files, frames, recs, modules, filestack, kont, evalOK, evalBegun, types, typs>>

\* The branch a conditional evaluates once its condition has the value c.
\* Variant: the conditional always continues with its first branch.
chosenBranch_AlwaysThen(e, c, rs) == e.x

chosenBranch(e, c, rs) == IF Bool(c, rs) THEN e.x ELSE e.y

\* case *ConditionalExpr: evaluate e.Cond
EvalConditionalExpr ==
    /\ Evaluating("if") /\ CanPush
    /\ kont' = Push([k |-> "if", e |-> ctl.expr, ctx |-> ctl.ctx])
    /\ ctl' = EvalAt(ctl.expr.cond, ctl.ctx)
    /\ UNCHANGED <<files, frames, recs, nclos, modules, filestack, evalOK, evalBegun, types, typs>>

\* case *ConditionalExpr: the condition has a value, evaluate one branch
ConditionDone ==
    /\ Returning("if")
    /\ kont' = Tail(kont)
    /\ ctl' = EvalAt(chosenBranch(Top.e, ctl.val, recs), Top.ctx)
    /\ UNCHANGED <<files, frames, recs, nclos, modules, filestack, evalOK, evalBegun, types, typs>>

(***************************************************************************)
(* evalRec (eval.go).  The two loops range over Go maps, whose iteration   *)
(* order is unspecified: each iteration takes any declaration not yet      *)
(* visited (todo).                                                         *)
(***************************************************************************)
\* case *RecExpr: evalRec up to the first loop
EvalRecExpr ==
    /\ Evaluating("rec") /\ Len(frames) < MaxFrames
    /\ LET rctx == Len(frames) + 1
           e == ctl.expr
       IN /\ frames' = storeExprs(storeExprs(ChildCtx(frames, ctl.ctx, "rec"), rctx, e.lets),
                                  rctx, e.fields)
          /\ ctl' = [m |-> "rlets", e |-> e, ctx |-> rctx, todo |-> DOMAIN e.lets]
    /\ UNCHANGED <<files, recs, nclos, modules, filestack, kont, evalOK, evalBegun, types, typs>>

\* evalRec: one iteration of the loop over e.LetVars (or its end)
RecLetStep ==
    /\ ctl.m = "rlets"
    /\ IF ctl.todo = {}
       THEN /\ recs' = Append(recs, NewRec)
            /\ ctl' = [m |-> "rfields", e |-> ctl.e, ctx |-> ctl.ctx, rec |-> Len(recs) + 1,
                       todo |-> DOMAIN ctl.e.fields]
            /\ UNCHANGED <<frames, kont>>
       ELSE \E n \in ctl.todo :
              IF fullyEvaluated(frames, ctl.ctx, n)
              THEN /\ ctl' = [ctl EXCEPT !.todo = @ \ {n}]
                   /\ UNCHANGED <<frames, kont, recs>>
              ELSE /\ CanPush
                   /\ frames' = setActive(frames, ctl.ctx, n)
                   /\ kont' = Push([k |-> "rlet", name |-> n, ctx |-> ctl.ctx, e |-> ctl.e,
                                    todo |-> ctl.todo \ {n}])
                   /\ ctl' = EvalAt(ctl.e.lets[n], ctl.ctx)
                   /\ UNCHANGED recs
    /\ UNCHANGED <<files, nclos, modules, filestack, evalOK, evalBegun, types, typs>>

\* evalRec: the expression of a let var has a value
RecLetDone ==
    /\ Returning("rlet")
    /\ frames' = store(frames, Top.ctx, Top.name, ctl.val)
    /\ kont' = Tail(kont)
    /\ ctl' = [m |-> "rlets", e |-> Top.e, ctx |-> Top.ctx, todo |-> Top.todo]
    /\ UNCHANGED <<files, recs, nclos, modules, filestack, evalOK, evalBegun, types, typs>>

\* evalRec: the type t and the multiplier m of the annotation of field n
fieldType(e, n) == IF n \in DOMAIN e.types THEN LookupType(e.types[n]) ELSE NoTyp

fieldMult(e, n) ==
    IF n \in DOMAIN e.types /\ e.types[n] \in DOMAIN UnitMults(fieldType(e, n))
    THEN UnitMults(fieldType(e, n))[e.types[n]] ELSE 0

\* evalRec: the end of one iteration of the loop over e.Fields, field n having
\* the value v: type check, rescaling and rec.setField.
fieldChecks(e, n, v) == n \in DOMAIN e.types => typeCheck(v, fieldType(e, n))

installField(rs, rec, e, n, v) ==
    IF n \notin DOMAIN e.types THEN setField(rs, rec, n, v, NoAnno)
    ELSE setField(rs, rec, n,
                  IF v.t = "unit" /\ fieldMult(e, n) > 0 THEN WithF(v, fieldMult(e, n)) ELSE v,
                  FieldAnnotation(fieldType(e, n), fieldMult(e, n)))

\* evalRec: one iteration of the loop over e.Fields (or its end)
RecFieldStep ==
    /\ ctl.m = "rfields"
    /\ IF ctl.todo = {}
       THEN /\ ctl' = Ret(RecVal(ctl.rec))
            /\ UNCHANGED <<frames, kont, recs>>
       ELSE \E n \in ctl.todo :
              IF n \in DOMAIN ctl.e.types /\ fieldType(ctl.e, n) = NoTyp
              THEN /\ ctl' = Err("unknown type")
                   /\ UNCHANGED <<frames, kont, recs>>
              ELSE IF fullyEvaluated(frames, ctl.ctx, n)
              THEN LET v == frames[ctl.ctx].env[n].val
                   IN IF fieldChecks(ctl.e, n, v)
                      THEN /\ recs' = installField(recs, ctl.rec, ctl.e, n, v)
                           /\ ctl' = [ctl EXCEPT !.todo = @ \ {n}]
                           /\ UNCHANGED <<frames, kont>>
                      ELSE /\ ctl' = Err("type error for field")
                           /\ UNCHANGED <<frames, kont, recs>>
              ELSE /\ CanPush
                   /\ frames' = setActive(frames, ctl.ctx, n)
                   /\ kont' = Push([k |-> "rfield", name |-> n, ctx |-> ctl.ctx, e |-> ctl.e,
                                    rec |-> ctl.rec, todo |-> ctl.todo \ {n}])
                   /\ ctl' = EvalAt(ctl.e.fields[n], ctl.ctx)
                   /\ UNCHANGED recs
    /\ UNCHANGED <<files, nclos, modules, filestack, evalOK, evalBegun, types, typs>>

\* evalRec: the expression of a field has a value
RecFieldDone ==
    /\ Returning("rfield")
    /\ frames' = store(frames, Top.ctx, Top.name, ctl.val)
    /\ kont' = Tail(kont)
    /\ IF fieldChecks(Top.e, Top.name, ctl.val)
       THEN /\ recs' = installField(recs, Top.rec, Top.e, Top.name, ctl.val)
            /\ ctl' = [m |-> "rfields", e |-> Top.e, ctx |-> Top.ctx, rec |-> Top.rec,
                       todo |-> Top.todo]
       ELSE /\ ctl' = Err("type error for field")
            /\ UNCHANGED recs
    /\ UNCHANGED <<files, nclos, modules, filestack, evalOK, evalBegun, types, typs>>

\* case *ListExpr: evaluate the elements in order
EvalListExpr ==
    /\ Evaluating("list")
    /\ IF ctl.expr.elems = <<>>
       THEN /\ ctl' = Ret(ListVal(<<>>))
            /\ UNCHANGED kont
       ELSE /\ CanPush
            /\ kont' = Push([k |-> "elem", e |-> ctl.expr, ctx |-> ctl.ctx, xs |-> <<>>])
            /\ ctl' = EvalAt(ctl.expr.elems[1], ctl.ctx)
    /\ UNCHANGED <<files, frames, recs, nclos, modules, filestack, evalOK, evalBegun, types, typs>>

\* case *ListExpr: an element has a value
ListElemDone ==
    /\ Returning("elem")
    /\ LET xs == Append(Top.xs, ctl.val)
       IN IF Len(xs) = Len(Top.e.elems)
          THEN /\ kont' = Tail(kont)
               /\ ctl' = Ret(ListVal(xs))
          ELSE /\ kont' = <<[Top EXCEPT !.xs = xs]>> \o Tail(kont)
               /\ ctl' = EvalAt(Top.e.elems[Len(xs) + 1], Top.ctx)
    /\ UNCHANGED <<files, frames, recs, nclos, modules, filestack, evalOK, evalBegun, types, typs>>

\* builtinUnitTypeConvert(typ, [unit, val]): Typ.Convert of a unit type
builtinUnitTypeConvert(typ, unit, val) ==
    IF unit \notin DOMAIN UnitMults(typ) THEN Err("invalid unit")
    ELSE LET f == UnitMults(typ)[unit]
         IN CASE val.t = "double" -> Ret(UnitVal(val.v, f, typ))
              [] val.t = "int" -> Ret(UnitVal(F64FromInt(val.v), f, typ))
              [] val.t = "unit" /\ val.T = typ -> Ret(WithF(val, f))
              [] OTHER -> Err("cannot convert")

\* convertType (modules.go), for the values and types of the model
convertType(val, typeName, rs) ==
    LET typ == LookupType(typeName)
    IN CASE typ = NoTyp -> Err("unknown type")
         [] IsUnit(typ) -> builtinUnitTypeConvert(typ, typeName, val)
         [] typ = "bool" -> Ret(BoolVal(Bool(val, rs)))
         [] val.t = "int" /\ typ = "int" -> Ret(val)
         [] val.t = "int" /\ typ = "double" -> Ret(DoubleVal(F64FromInt(val.v)))
         [] val.t = "double" /\ typ = "double" -> Ret(val)
         [] val.t = "str" /\ typ = "string" -> Ret(val)
         [] val.t = "unit" /\ typ = "double" -> Ret(DoubleVal(val.V))
         [] OTHER -> Err("cannot convert")

\* case *TypedExpr: evaluate e.X
EvalTypedExpr ==
    /\ Evaluating("typed") /\ CanPush
    /\ kont' = Push([k |-> "typed", e |-> ctl.expr])
    /\ ctl' = EvalAt(ctl.expr.x, ctl.ctx)
    /\ UNCHANGED <<files, frames, recs, nclos, modules, filestack, evalOK, evalBegun, types, typs>>

\* case *TypedExpr: e.X has a value, convert it
TypedExprDone ==
    /\ Returning("typed")
    /\ kont' = Tail(kont)
    /\ ctl' = convertType(ctl.val, Top.e.T, recs)
    /\ UNCHANGED <<files, frames, recs, nclos, modules, filestack, evalOK, evalBegun, types, typs>>

(***************************************************************************)
(* Calls: case *CallExpr of Eval, FuncExprVal.Call, NativeFuncVal.Call and *)
(* the built-in functions.                                                 *)
(***************************************************************************)
Call(f, args, c) == [m |-> "call", f |-> f, args |-> args, ctx |-> c]

\* case *CallExpr: evaluate e.Func
EvalCallExpr ==
    /\ Evaluating("call") /\ CanPush
    /\ kont' = Push([k |-> "callFunc", e |-> ctl.expr, ctx |-> ctl.ctx])
    /\ ctl' = EvalAt(ctl.expr.func, ctl.ctx)
    /\ UNCHANGED <<files, frames, recs, nclos, modules, filestack, evalOK, evalBegun, types, typs>>

\* case *CallExpr: e.Func has a value; evaluate the first argument or call
CallFuncDone ==
    /\ Returning("callFunc")
    /\ IF ctl.val.t \notin {"func", "native"}
       THEN /\ ctl' = Err("not callable")
            /\ kont' = Tail(kont)
       ELSE IF Top.e.args = <<>>
       THEN /\ ctl' = Call(ctl.val, <<>>, Top.ctx)
            /\ kont' = <<[k |-> "callRet"]>> \o Tail(kont)
       ELSE /\ ctl' = EvalAt(Top.e.args[1], Top.ctx)
            /\ kont' = <<[k |-> "callArg", e |-> Top.e, ctx |-> Top.ctx, f |-> ctl.val,
                          args |-> <<>>]>> \o Tail(kont)
    /\ UNCHANGED <<files, frames, recs, nclos, modules, filestack, evalOK, evalBegun, types, typs>>

\* case *CallExpr: an argument has a value; evaluate the next one or call
CallArgDone ==
    /\ Returning("callArg")
    /\ LET args == Append(Top.args, ctl.val)
       IN IF Len(args) < Len(Top.e.args)
          THEN /\ ctl' = EvalAt(Top.e.args[Len(args) + 1], Top.ctx)
               /\ kont' = <<[Top EXCEPT !.args = args]>> \o Tail(kont)
          ELSE /\ ctl' = Call(Top.f, args, Top.ctx)
               /\ kont' = <<[k |-> "callRet"]>> \o Tail(kont)
    /\ UNCHANGED <<files, frames, recs, nclos, modules, filestack, evalOK, evalBegun, types, typs>>

\* case *CallExpr: f.Call returned a value
CallReturn ==
    /\ Returning("callRet")
    /\ kont' = Tail(kont)
    /\ UNCHANGED <<files, frames, recs, nclos, modules, filestack, ctl, evalOK, evalBegun, types, typs>>

\* case *CallExpr: f.Call returned an error, which becomes the cause of an EvalError
CallFailed ==
    /\ Failing("callRet")
    /\ kont' = Tail(kont)
    /\ ctl' = ErrOf(Wrap(ctl.err, "call failed"))
    /\ UNCHANGED <<files, frames, recs, nclos, modules, filestack, evalOK, evalBegun, types, typs>>

RECURSIVE storeParams(_, _, _, _)
storeParams(fr, c, params, args) ==
    IF params = <<>> THEN fr
    ELSE storeParams(store(fr, c, Head(params), Head(args)), c, Tail(params), Tail(args))

fctx_ChildOfCaller(fr, f, caller) == ChildCtx(fr, caller, "call")

\* FuncExprVal.Call: fctx := ChildCtx(f.ctx); the Ctx of the caller is not used.
fctx(fr, f, caller) == ChildCtx(fr, f.ctx, "call")

\* FuncExprVal.Call
CallFuncExprVal ==
    /\ ctl.m = "call" /\ ctl.f.t = "func"
    /\ IF Len(ctl.args) # Len(ctl.f.params)
       THEN /\ ctl' = Err("wrong number of arguments")
            /\ UNCHANGED frames
       ELSE /\ Len(frames) < MaxFrames
            /\ frames' = storeParams(fctx(frames, ctl.f, ctl.ctx), Len(frames) + 1,
                                     ctl.f.params, ctl.args)
            /\ ctl' = EvalAt(ctl.f.body, Len(frames) + 1)
    /\ UNCHANGED <<files, recs, nclos, modules, filestack, kont, evalOK, evalBegun, types, typs>>

\* NativeFuncVal.Call: negative arity means "accept any args".
arityOK(f, args) == ~(f.arity >= 0 /\ Len(args) # f.arity)
CallingNative(name) == ctl.m = "call" /\ ctl.f.t = "native" /\ ctl.f.name = name /\ arityOK(ctl.f, ctl.args)

\* NativeFuncVal.Call with the wrong number of arguments
NativeArityMismatch ==
    /\ ctl.m = "call" /\ ctl.f.t = "native" /\ ~arityOK(ctl.f, ctl.args)
    /\ ctl' = Err("wrong number of arguments")
    /\ UNCHANGED <<files, frames, recs, nclos, modules, filestack, kont, evalOK, evalBegun, types, typs>>

\* builtinCond: the function receives the values of all three arguments.
\* Variant: cond with its branches exchanged.
builtinCond_Swapped(args, rs) == IF Bool(args[1], rs) THEN args[3] ELSE args[2]

builtinCond(args, rs) == IF Bool(args[1], rs) THEN args[2] ELSE args[3]

BuiltinCond ==
    /\ CallingNative("cond")
    /\ ctl' = Ret(builtinCond(ctl.args, recs))
    /\ UNCHANGED <<files, frames, recs, nclos, modules, filestack, kont, evalOK, evalBegun, types, typs>>

\* builtinError: returns a ValError carrying its argument.
BuiltinError ==
    /\ CallingNative("error")
    /\ ctl' = ErrOf(Error("ValError", ctl.args[1]))
    /\ UNCHANGED <<files, frames, recs, nclos, modules, filestack, kont, evalOK, evalBegun, types, typs>>

\* A type assertion on the error itself, which a wrapper hides.
isValError_Unwrapped(e) == e.kind = "ValError" /\ e.wraps = <<>>

\* errors.As(err, &valErr): every wrapper of the model unwraps to its cause.
isValError(e) == e.kind = "ValError"

pcallResult(value, err) ==
    [Fields |-> [n \in {"value", "err"} |-> IF n = "value" THEN value ELSE BoolVal(err)],
     FieldAnnotations |-> EmptyMap]

\* builtinPcall up to the call of its first argument
BuiltinPcall ==
    /\ CallingNative("pcall")
    /\ IF Len(ctl.args) = 0
       THEN /\ ctl' = Err("pcall: expect at least one (function) argument")
            /\ UNCHANGED kont
       ELSE IF ctl.args[1].t \notin {"func", "native"}
       THEN /\ ctl' = Err("pcall: 1st argument must be a callable")
            /\ UNCHANGED kont
       ELSE /\ CanPush
            /\ kont' = Push([k |-> "pcall"])
            /\ ctl' = Call(ctl.args[1], Tail(ctl.args), ctl.ctx)
    /\ UNCHANGED <<files, frames, recs, nclos, modules, filestack, evalOK, evalBegun, types, typs>>

\* builtinPcall: the call returned
PcallDone ==
    /\ kont # <<>> /\ Top.k = "pcall" /\ ctl.m \in {"ret", "err"}
    /\ kont' = Tail(kont)
    /\ IF ctl.m = "ret"
       THEN /\ recs' = Append(recs, pcallResult(ctl.val, FALSE))
            /\ ctl' = Ret(RecVal(Len(recs) + 1))
       ELSE IF isValError(ctl.err)
       THEN /\ recs' = Append(recs, pcallResult(ctl.err.val, TRUE))
            /\ ctl' = Ret(RecVal(Len(recs) + 1))
       ELSE UNCHANGED <<recs, ctl>>
    /\ UNCHANGED <<files, frames, nclos, modules, filestack, evalOK, evalBegun, types, typs>>

\* builtinLoad up to the call of LoadModule
BuiltinLoad ==
    /\ CallingNative("load")
    /\ IF ctl.args[1].t # "str"
       THEN /\ ctl' = Err("load: expected string argument")
            /\ UNCHANGED kont
       ELSE /\ CanPush
            /\ kont' = Push([k |-> "builtinLoad"])
            /\ ctl' = [m |-> "load", name |-> ctl.args[1].v, ctx |-> dropLocals(frames, ctl.ctx)]
    /\ UNCHANGED <<files, frames, recs, nclos, modules, filestack, evalOK, evalBegun, types, typs>>

\* loadedModule.AsRec
AsRec(m) ==
    [Fields |-> IF "body" \in DOMAIN m.pubVars THEN m.pubVars ELSE Put(m.pubVars, "body", m.body),
     FieldAnnotations |-> EmptyMap]

\* builtinLoad: LoadModule returned
BuiltinLoadDone ==
    /\ kont # <<>> /\ Top.k = "builtinLoad" /\ ctl.m \in {"ret", "err"}
    /\ kont' = Tail(kont)
    /\ IF ctl.m = "ret"
       THEN /\ recs' = Append(recs, AsRec(ctl.val))
            /\ ctl' = Ret(RecVal(Len(recs) + 1))
       ELSE UNCHANGED <<recs, ctl>>
    /\ UNCHANGED <<files, frames, nclos, modules, filestack, evalOK, evalBegun, types, typs>>

(***************************************************************************)
(* LoadModule (modules.go) and EvalModule (eval.go).  All files live in    *)
(* one directory and are named as they are loaded, so a module name        *)
(* resolves to the file of that name when it exists.                       *)
(***************************************************************************)
Missing == [ok |-> FALSE, kind |-> "missing"]
Unreadable == [ok |-> FALSE, kind |-> "unreadable"]

fileForModule(fs, name) ==
    IF name \in DOMAIN fs /\ fs[name] # Missing
    THEN [ok |-> TRUE, filename |-> name]
    ELSE [ok |-> FALSE, filename |-> ""]

\* Variant: the module is cached whether or not its evaluation succeeded.
cacheAfterEval_StoreAlways(mods, filename, c) ==
    storeModule(mods, IF c.m = "ret" THEN c.val ELSE loadedModule(filename, EmptyMap, NilVal))

\* Variant: a failed evaluation empties the cache.
cacheAfterEval_ResetOnError(mods, filename, c) ==
    IF c.m = "ret" THEN storeModule(mods, c.val) ELSE EmptyMap

\* The module cache once EvalModule has returned into LoadModule.
cacheAfterEval(mods, filename, c) ==
    IF c.m = "ret" THEN storeModule(mods, c.val) ELSE mods

\* LoadModule up to the first loop of EvalModule
LoadModule ==
    /\ ctl.m = "load"
    /\ LET r == fileForModule(files, ctl.name)
           filename == r.filename
       IN IF ~r.ok
          THEN /\ ctl' = Err("LoadModule: module not found")
               /\ UNCHANGED <<frames, filestack, kont>>
          ELSE IF LookupModule(modules, filename) # NoVal
          THEN /\ ctl' = Ret(LookupModule(modules, filename))
               /\ UNCHANGED <<frames, filestack, kont>>
          ELSE IF isActiveFile(filestack, filename)
          THEN /\ ctl' = Err("LoadModule: load cycle detected")
               /\ UNCHANGED <<frames, filestack, kont>>
          ELSE IF files[filename] = Unreadable
          THEN /\ ctl' = ErrOf(Wrap(Error("read error", NoVal), "LoadModule: error reading module file"))
               /\ UNCHANGED <<frames, filestack, kont>>
          ELSE IF ~files[filename].ok
          THEN /\ ctl' = ErrOf(Wrap(Error("ParseError", NoVal), "LoadModule: failed to parse module"))
               /\ UNCHANGED <<frames, filestack, kont>>
          ELSE LET mod == files[filename]
                   mctx == Len(frames) + 1
               IN /\ CanPush /\ Len(frames) < MaxFrames
                  /\ filestack' = pushFile(filestack, filename)
                  /\ kont' = Push([k |-> "LoadModule", file |-> filename, entry |-> modules,
                                   types |-> types])
                  /\ frames' = storeDecls(storeDecls(ChildCtx(frames, ctl.ctx, "module"),
                                                     mctx, mod.lets), mctx, mod.pubs)
                  /\ ctl' = IF mod.units = <<>>
                            THEN [m |-> "mlets", mod |-> mod, file |-> filename, ctx |-> mctx,
                                  todo |-> DOMAIN mod.lets]
                            ELSE [m |-> "munits", mod |-> mod, file |-> filename, ctx |-> mctx,
                                  todo |-> DOMAIN mod.units]
    /\ evalBegun' = IF ctl'.m \in {"mlets", "munits"} THEN Append(evalBegun, ctl'.file)
                    ELSE evalBegun
    /\ UNCHANGED <<files, recs, nclos, modules, evalOK, types, typs>>

\* LoadModule: EvalModule returned; the deferred popFile runs on both paths
LoadModuleDone ==
    /\ kont # <<>> /\ Top.k = "LoadModule" /\ ctl.m \in {"ret", "err"}
    /\ kont' = Tail(kont)
    /\ filestack' = popFile(filestack)
    /\ modules' = cacheAfterEval(modules, Top.file, ctl)
    /\ ctl' = IF ctl.m = "ret" THEN ctl
              ELSE ErrOf(Wrap(ctl.err, "LoadModule: failed to evaluate module"))
    /\ UNCHANGED <<files, frames, recs, nclos, evalOK, evalBegun, types, typs>>

\* EvalModule: one iteration of the loop over m.UnitDecls (or its end); a module
\* without unit declarations is at the loop over m.LetVars at once
ModUnitStep ==
    /\ ctl.m = "munits"
    /\ IF ctl.todo = {}
       THEN /\ ctl' = [m |-> "mlets", mod |-> ctl.mod, file |-> ctl.file, ctx |-> ctl.ctx,
                       todo |-> DOMAIN ctl.mod.lets]
            /\ UNCHANGED kont
       ELSE \E i \in ctl.todo :
            /\ CanPush
            /\ kont' = Push([k |-> "munit", name |-> ctl.mod.units[i].name, ctx |-> ctl.ctx,
                             mod |-> ctl.mod, file |-> ctl.file, todo |-> ctl.todo \ {i}])
            /\ ctl' = EvalAt(ctl.mod.units[i].multiples, ctl.ctx)
    /\ UNCHANGED <<files, frames, recs, nclos, modules, filestack, evalOK, evalBegun, types, typs>>

\* EvalModule: d.Multiples has a value; collect the multiples (int multipliers;
\* the declarations of the model hold no double) and define the type
ModUnitDone ==
    /\ Returning("munit")
    /\ kont' = Tail(kont)
    /\ IF ctl.val.t # "rec"
       THEN /\ ctl' = Panic("*RecExpr must evaluate to *RecVal")
            /\ UNCHANGED <<types, typs>>
       ELSE LET fields == recs[ctl.val.id].Fields
            IN /\ \A f \in DOMAIN fields : fields[f].t # "double"
               /\ IF \E f \in DOMAIN fields : fields[f].t # "int"
                  THEN /\ ctl' = Err("Invalid type for multiplier")
                       /\ UNCHANGED <<types, typs>>
                  ELSE /\ Len(typs) < MaxTyps
                       /\ typs' = Append(typs, NewUnitType(Top.name,
                                                           [f \in DOMAIN fields |-> fields[f].v]))
                       /\ types' = defineType(types, TypHandle(Len(typs) + 1), Top.name,
                                              DOMAIN fields)
                       /\ ctl' = [m |-> "munits", mod |-> Top.mod, file |-> Top.file,
                                  ctx |-> Top.ctx, todo |-> Top.todo]
    /\ UNCHANGED <<files, frames, recs, nclos, modules, filestack, evalOK, evalBegun>>

\* EvalModule: one iteration of the loop over m.LetVars (or its end)
ModLetStep ==
    /\ ctl.m = "mlets"
    /\ IF ctl.todo = {}
       THEN /\ ctl' = [m |-> "mpubs", mod |-> ctl.mod, file |-> ctl.file, ctx |-> ctl.ctx,
                       todo |-> DOMAIN ctl.mod.pubs, pubVars |-> EmptyMap]
            /\ UNCHANGED <<frames, kont>>
       ELSE \E i \in ctl.todo :
            LET d == ctl.mod.lets[i]
            IN IF fullyEvaluated(frames, ctl.ctx, d.name)
               THEN /\ ctl' = [ctl EXCEPT !.todo = @ \ {i}]
                    /\ UNCHANGED <<frames, kont>>
               ELSE /\ CanPush
                    /\ frames' = setActive(frames, ctl.ctx, d.name)
                    /\ kont' = Push([k |-> "mlet", name |-> d.name, ctx |-> ctl.ctx,
                                     mod |-> ctl.mod, file |-> ctl.file,
                                     todo |-> ctl.todo \ {i}])
                    /\ ctl' = EvalAt(d.x, ctl.ctx)
    /\ UNCHANGED <<files, recs, nclos, modules, filestack, evalOK, evalBegun, types, typs>>

\* EvalModule: the expression of a module-level let has a value
ModLetDone ==
    /\ Returning("mlet")
    /\ frames' = store(frames, Top.ctx, Top.name, ctl.val)
    /\ kont' = Tail(kont)
    /\ ctl' = [m |-> "mlets", mod |-> Top.mod, file |-> Top.file, ctx |-> Top.ctx,
               todo |-> Top.todo]
    /\ UNCHANGED <<files, recs, nclos, modules, filestack, evalOK, evalBegun, types, typs>>

\* EvalModule: one iteration of the loop over m.PubDecls (or its end)
ModPubStep ==
    /\ ctl.m = "mpubs"
    /\ IF ctl.todo = {}
       THEN /\ ctl' = [m |-> "mbody", mod |-> ctl.mod, file |-> ctl.file, ctx |-> ctl.ctx,
                       pubVars |-> ctl.pubVars]
            /\ UNCHANGED <<frames, kont>>
       ELSE \E i \in ctl.todo :
            LET d == ctl.mod.pubs[i]
            IN IF fullyEvaluated(frames, ctl.ctx, d.name)
               THEN /\ ctl' = [ctl EXCEPT !.todo = @ \ {i},
                                          !.pubVars = Put(@, d.name, frames[ctl.ctx].env[d.name].val)]
                    /\ UNCHANGED <<frames, kont>>
               ELSE /\ CanPush
                    /\ frames' = setActive(frames, ctl.ctx, d.name)
                    /\ kont' = Push([k |-> "mpub", name |-> d.name, ctx |-> ctl.ctx,
                                     mod |-> ctl.mod, file |-> ctl.file,
                                     todo |-> ctl.todo \ {i}, pubVars |-> ctl.pubVars])
                    /\ ctl' = EvalAt(d.x, ctl.ctx)
    /\ UNCHANGED <<files, recs, nclos, modules, filestack, evalOK, evalBegun, types, typs>>

\* EvalModule: the expression of a pub declaration has a value
ModPubDone ==
    /\ Returning("mpub")
    /\ frames' = store(frames, Top.ctx, Top.name, ctl.val)
    /\ kont' = Tail(kont)
    /\ ctl' = [m |-> "mpubs", mod |-> Top.mod, file |-> Top.file, ctx |-> Top.ctx,
               todo |-> Top.todo, pubVars |-> Put(Top.pubVars, Top.name, ctl.val)]
    /\ UNCHANGED <<files, recs, nclos, modules, filestack, evalOK, evalBegun, types, typs>>

\* EvalModule: evaluate the body, or return the module when there is none
ModBodyStep ==
    /\ ctl.m = "mbody"
    /\ IF ctl.mod.body = NoExpr
       THEN /\ ctl' = Ret(loadedModule(ctl.file, ctl.pubVars, NilVal))
            /\ evalOK' = evalOK \cup {ctl.file}
            /\ UNCHANGED kont
       ELSE /\ CanPush
            /\ kont' = Push([k |-> "mbody", file |-> ctl.file, pubVars |-> ctl.pubVars])
            /\ ctl' = EvalAt(ctl.mod.body, ctl.ctx)
            /\ UNCHANGED evalOK
    /\ UNCHANGED <<files, frames, recs, nclos, modules, filestack, evalBegun, types, typs>>

\* EvalModule: the body has a value, return the module
ModBodyDone ==
    /\ Returning("mbody")
    /\ kont' = Tail(kont)
    /\ ctl' = Ret(loadedModule(Top.file, Top.pubVars, ctl.val))
    /\ evalOK' = evalOK \cup {Top.file}
    /\ UNCHANGED <<files, frames, recs, nclos, modules, filestack, evalBegun, types, typs>>

\* "if err != nil { return nil, err }": the activations that pass an error on unchanged
PassesErrors == {"binX", "binY", "var", "if", "rlet", "rfield", "callFunc", "callArg",
                 "munit", "mlet", "mpub", "mbody", "elem", "typed"}

ErrorReturn ==
    /\ ctl.m = "err" /\ kont # <<>> /\ Top.k \in PassesErrors
    /\ kont' = Tail(kont)
    /\ UNCHANGED <<files, frames, recs, nclos, modules, filestack, ctl, evalOK, evalBegun, types, typs>>

(***************************************************************************)
(* The programs the model runs: the file system holds the root file m1,    *)
(* loaded by LoadModule(m1, GlobalCtx()) as main does, and the files m2    *)
(* and m3.                                                                 *)
(***************************************************************************)
RootFile == "m1"
FileNames == {"m1", "m2", "m3"}

I0 == IntLiteral(0)
I1 == IntLiteral(1)
I2 == IntLiteral(2)
I3 == IntLiteral(3)
Fail == CallExpr(VarExpr("error"), <<IntLiteral(7)>>)                  \* error(7)
DivZero == BinaryExpr("/", I1, I0)                                     \* 1 / 0
Thunk(n) == FuncExpr(<<>>, VarExpr(n))                                 \* func () { n }
Call0(n) == CallExpr(VarExpr(n), <<>>)                                 \* n()
Pcall(f) == CallExpr(VarExpr("pcall"), <<f>>)                          \* pcall(f)
Load(n) == CallExpr(VarExpr("load"), <<StrLiteral(n)>>)                \* load('n')
PcallLoad(n) == CallExpr(VarExpr("pcall"), <<VarExpr("load"), StrLiteral(n)>>)
Cond(c, x, y) == CallExpr(VarExpr("cond"), <<c, x, y>>)                \* cond(c, x, y)
IfSkip(n) == ConditionalExpr(I1, I2, VarExpr(n))                       \* if 1 then 2 else n

Body(e) == Module(<<>>, <<>>, e)
FS(c1, c2, c3) == [f \in FileNames |-> CASE f = "m1" -> c1 [] f = "m2" -> c2 [] f = "m3" -> c3]

\* { let a: ea  let b: eb  x: ex }
Cells(ea, eb, ex) ==
    RecExpr([n \in {"a", "b"} |-> IF n = "a" THEN ea ELSE eb], [n \in {"x"} |-> ex])

CellNames == {"a", "b", "x"}
LetExprs ==
    {I1, Fail} \cup {VarExpr(n) : n \in CellNames} \cup {IfSkip(n) : n \in CellNames}
    \cup {Thunk(n) : n \in CellNames} \cup {Call0(n) : n \in CellNames}
    \cup {Pcall(Thunk(n)) : n \in CellNames}
FieldExprs == {I1, Fail, VarExpr("a"), VarExpr("b"), VarExpr("x"), IfSkip("x"), Call0("a")}
CellPrograms == {Cells(ea, eb, ex) : ea \in LetExprs, eb \in LetExprs, ex \in FieldExprs}

\* if c then x else y  and  cond(c, x, y)  over operands that succeed, fail or panic
Conditions == {I0, I1, StrLiteral("")}
Branches == {I2, I3, Fail, DivZero, VarExpr("z"), Load("nofile")}
IfPrograms == {ConditionalExpr(c, x, y) : c \in Conditions, x \in Branches, y \in Branches}
CondPrograms == {Cond(c, x, y) : c \in Conditions, x \in Branches, y \in Branches}

\* { let f: func (n) { if n == 0 then 1 else f(n - 1) }  y: f(k) }
Countdown(k) ==
    RecExpr([n \in {"f"} |->
               FuncExpr(<<"n">>, ConditionalExpr(BinaryExpr("==", VarExpr("n"), I0), I1,
                   CallExpr(VarExpr("f"), <<BinaryExpr("-", VarExpr("n"), I1)>>)))],
            [n \in {"y"} |-> CallExpr(VarExpr("f"), <<IntLiteral(k)>>)])

OtherPrograms ==
    {Countdown(k) : k \in 0..2}
    \cup {BinaryExpr(op, x, y) : op \in {"+", "-", "/", "=="},
                                 x \in {I0, I3, StrLiteral("a")}, y \in {I0, I2, StrLiteral("a")}}
    \cup {CallExpr(VarExpr("cond"), <<I1>>), CallExpr(VarExpr("pcall"), <<>>), Pcall(I1),
          CallExpr(VarExpr("load"), <<I1>>), CallExpr(Thunk("z"), <<I1>>),
          RecExpr([n \in {"f"} |-> FuncExpr(<<>>, Call0("f"))], [n \in {"x"} |-> Call0("f")])}

\* { x: ex  y: ey }: two fields that succeed or fail, alone or through each other
Pair(ex, ey) == RecExpr(EmptyMap, [n \in {"x", "y"} |-> IF n = "x" THEN ex ELSE ey])
PairExprs(o) ==
    {I1, Fail, VarExpr(o), BinaryExpr("+", VarExpr(o), I1),
     BinaryExpr("+", VarExpr("z"), VarExpr(o)), Pcall(Thunk(o)), IfSkip(o),
     Cond(Pcall(Thunk(o)), Pcall(Thunk(o)), I1)}
PairPrograms == {Pair(ex, ey) : ex \in PairExprs("y"), ey \in PairExprs("x")}

\* The call f(k) in a record that binds n, f being a closure with the free
\* variable n (TestEvalFunc, "Lexical scoping"):
\* { let n: d  let f: func (k) { n + k }  site: { n: m  a: f(k) } }, with or
\* without the let of n, and
\* { let adder: func (n) { func (k) { n + k } }  let f: adder(d)  site: { n: m  a: f(k) } }
AddN == FuncExpr(<<"k">>, BinaryExpr("+", VarExpr("n"), VarExpr("k")))
CallSite(m, k) ==
    RecExpr(EmptyMap, [c \in {"n", "a"} |-> IF c = "n" THEN m ELSE CallExpr(VarExpr("f"), <<k>>)])
Shadow(d, m, k) ==
    RecExpr(IF d = NoExpr THEN [c \in {"f"} |-> AddN]
            ELSE [c \in {"n", "f"} |-> IF c = "n" THEN d ELSE AddN],
            [c \in {"site"} |-> CallSite(m, k)])
Adder(d, m, k) ==
    RecExpr([c \in {"adder", "f"} |->
                IF c = "adder" THEN FuncExpr(<<"n">>, AddN) ELSE CallExpr(VarExpr("adder"), <<d>>)],
            [c \in {"site"} |-> CallSite(m, k)])
ScopePrograms ==
    {Shadow(d, m, k) : d \in {NoExpr, I1, I2}, m \in {I0, I3}, k \in {I1, I2}}
    \cup {Adder(d, m, k) : d \in {I1, I2}, m \in {I0, I3}, k \in {I1, I2}}

\* Programs of several modules: what m1 declares and what m2 and m3 hold.
Loads == {Load("m2"), Load("m3"), Load("m1"), PcallLoad("m2")}
RootModules ==
    {Module(<<Decl("z", I1), Decl("u", x)>>, <<Decl("p", y)>>, b) :
        x \in Loads, y \in {Load("m2"), Load("m3"), VarExpr("u")},
        b \in {NoExpr, Fail, Load("m3")}}
M2Contents ==
    {Missing, Unreadable, BadSyntax, Body(I1), Body(Fail), Body(VarExpr("z")),
     Body(Load("m1")), Body(Load("m3")), Body(PcallLoad("m3")),
     Module(<<Decl("v", Load("m3"))>>, <<Decl("body", I2)>>, Fail),
     Body(RecExpr([n \in {"z"} |-> I2], [n \in {"r"} |-> Load("m3")]))}
M3Contents ==
    {Missing, BadSyntax, Body(I1), Body(Fail), Body(VarExpr("z")), Body(Load("m1")),
     Body(Load("m2")), Module(<<>>, <<Decl("q", I3)>>, NoExpr)}

\* { d::seconds: 1::u  seen: d }: an annotated field and a sibling that names it
Rescaled(u) ==
    TypedRecExpr(EmptyMap,
                 [n \in {"d", "seen"} |-> IF n = "d" THEN TypedExpr(I1, u) ELSE VarExpr("d")],
                 [n \in {"d"} |-> "seconds"])
AnnotatedPrograms == {Rescaled(u) : u \in {"seconds", "minutes", "int"}}

\* Programs with pub unit declarations: m2 declares the unit type dist, or a unit
\* type that takes a name of duration, and succeeds or fails after the
\* declaration; m1 loads m2 and then names a unit.
\*   m2:  pub unit dist { m: 1  km: 1000 }  [error(7)]
\*   m1:  let z: 1  let u: pcall(load, 'm2')  pub p: 1::m
Multiples(ns, x) == RecExpr(EmptyMap, [n \in ns |-> x])
DistDecl == UnitDecl("dist", RecExpr(EmptyMap, [n \in {"m", "km"} |->
                                        IF n = "m" THEN I1 ELSE IntLiteral(1000)]))
UnitRoots ==
    {Module(<<Decl("z", I1), Decl("u", x)>>, <<Decl("p", y)>>, NoExpr) :
        x \in {Load("m2"), PcallLoad("m2")},
        y \in {TypedExpr(I1, "m"), TypedExpr(I1, "seconds"), Load("m3")}}
UnitM2 ==
    {UnitModule(<<DistDecl>>, <<>>, <<>>, b) : b \in {I1, Fail}}
    \cup {UnitModule(<<UnitDecl("tick", Multiples({"seconds"}, I3))>>, <<>>, <<>>, I1),
          UnitModule(<<UnitDecl("dist", Multiples({"m"}, StrLiteral("a")))>>, <<>>, <<>>, I1),
          UnitModule(<<DistDecl>>, <<Decl("v", Load("m3"))>>, <<>>, TypedExpr(I2, "m"))}
UnitM3 ==
    {Missing, UnitModule(<<UnitDecl("dist", Multiples({"m"}, I2))>>, <<>>, <<>>, Fail)}
UnitPrograms == {FS(c1, c2, c3) : c1 \in UnitRoots, c2 \in UnitM2, c3 \in UnitM3}

Programs ==
    UnitPrograms \cup
    {FS(Body(e), Missing, Missing) : e \in CellPrograms \cup IfPrograms \cup CondPrograms \cup OtherPrograms
                                                \cup PairPrograms \cup ScopePrograms
                                                \cup AnnotatedPrograms}
    \cup {FS(c1, c2, c3) : c1 \in RootModules, c2 \in M2Contents, c3 \in M3Contents}

Init ==
    /\ files \in Programs
    /\ frames = GlobalCtx
    /\ recs = <<>>
    /\ nclos = 0
    /\ modules = EmptyMap
    /\ filestack = <<>>
    /\ ctl = [m |-> "load", name |-> RootFile, ctx |-> 1]
    /\ kont = <<>>
    /\ evalOK = {}
    /\ evalBegun = <<>>
    /\ types = GlobalCtxTypes
    /\ typs = <<>>

Next ==
    \/ ModUnitStep
    \/ ModUnitDone
    \/ EvalTypedExpr
    \/ TypedExprDone
    \/ EvalLiteral
    \/ EvalBinaryExpr
    \/ BinaryLeftDone
    \/ BinaryRightDone
    \/ EvalVarExpr
    \/ VarDone
    \/ EvalFuncExpr
    \/ EvalConditionalExpr
    \/ ConditionDone
    \/ EvalRecExpr
    \/ RecLetStep
    \/ RecLetDone
    \/ RecFieldStep
    \/ RecFieldDone
    \/ EvalCallExpr
    \/ CallFuncDone
    \/ CallArgDone
    \/ CallReturn
    \/ CallFailed
    \/ CallFuncExprVal
    \/ NativeArityMismatch
    \/ BuiltinCond
    \/ BuiltinError
    \/ BuiltinPcall
    \/ PcallDone
    \/ BuiltinLoad
    \/ BuiltinLoadDone
    \/ LoadModule
    \/ LoadModuleDone
    \/ ModLetStep
    \/ ModLetDone
    \/ ModPubStep
    \/ ModPubDone
    \/ ModBodyStep
    \/ ModBodyDone
    \/ ErrorReturn

Spec == Init /\ [][Next]_vars

(***************************************************************************)
(* Expressions evaluated on their own, by Eval(e, GlobalCtx()) as the      *)
(* tests of eval_test.go do: unit values of duration, their sums,          *)
(* differences, conversions and comparisons, merges of records, and        *)
(* comparisons of records and lists.                                       *)
(***************************************************************************)
Magnitudes == {0, 1, 3, 7, 24, 30, 3600000}
UnitNames == DOMAIN builtinTypeDuration

Unit(n, u) == TypedExpr(IntLiteral(n), u)                                  \* n::u
UnitLiterals == {Unit(n, u) : n \in Magnitudes, u \in UnitNames}

\* x + y, x - y, x == y, x != y, (x + y)::u and x::u == y on unit values
UnitExpressions ==
    {BinaryExpr(op, x, y) : op \in {"+", "-", "==", "!="}, x \in UnitLiterals, y \in UnitLiterals}
    \cup {TypedExpr(BinaryExpr("+", x, Unit(n, u)), c) :
            x \in UnitLiterals, n \in {0, 3}, u \in {"millis", "seconds"}, c \in UnitNames}
    \cup {BinaryExpr("==", TypedExpr(x, c), Unit(n, c)) :
            x \in UnitLiterals, n \in {1, 24}, c \in UnitNames}
    \cup {BinaryExpr("+", Unit(1, "hours"), e) : e \in {I1, Unit(1, "parsecs")}}

Field(n, x) == [f \in {n} |-> x]
Scalars == {I1, I2, StrLiteral("s"), Unit(1, "minutes")}
Rec1(n, x) == RecExpr(EmptyMap, Field(n, x))
Rec2(x, y) == RecExpr(EmptyMap, [f \in {"k", "j"} |-> IF f = "k" THEN x ELSE y])
EmptyRec == RecExpr(EmptyMap, EmptyMap)
Nested == {Rec1(n, x) : n \in {"k", "j"}, x \in {I1, I2}}
            \cup {Rec1("k", Rec1("k", x)) : x \in {I1, I2}}
            \cup {Rec1("k", Rec1("j", I1)), EmptyRec}
FieldValues == Scalars \cup Nested
AnnotatedRecs ==
    {TypedRecExpr(EmptyMap, Field("k", x), Field("k", typ)) :
        x \in Scalars, typ \in {"int", "seconds", "duration", "metres"}}
MergeOperands ==
    {Rec1(n, x) : n \in {"k", "j"}, x \in FieldValues}
    \cup {Rec2(x, y) : x \in {I1, Rec1("k", I1)}, y \in {I2, Rec1("k", I2)}}
    \cup AnnotatedRecs \cup {EmptyRec, I1}
MergeExpressions == {BinaryExpr("@", a, b) : a \in MergeOperands, b \in MergeOperands}

Comparands == {EmptyRec, Rec1("k", I1), ListExpr(<<>>), ListExpr(<<I1>>), ListExpr(<<I1, I2>>),
               ListExpr(<<I1, Unit(1, "parsecs")>>), I1}
CompareExpressions == {BinaryExpr(op, a, b) : op \in {"==", "!="}, a \in Comparands, b \in Comparands}

Expressions == UnitExpressions \cup MergeExpressions \cup CompareExpressions

InitOp ==
    /\ files = FS(Missing, Missing, Missing)
    /\ frames = GlobalCtx
    /\ recs = <<>>
    /\ nclos = 0
    /\ modules = EmptyMap
    /\ filestack = <<>>
    /\ ctl \in {EvalAt(e, 1) : e \in Expressions}
    /\ kont = <<>>
    /\ evalOK = {}
    /\ evalBegun = <<>>
    /\ types = GlobalCtxTypes
    /\ typs = <<>>

NextOp ==
    \/ EvalLiteral
    \/ EvalBinaryExpr
    \/ BinaryLeftDone
    \/ BinaryRightDone
    \/ EvalRecExpr
    \/ RecLetStep
    \/ RecFieldStep
    \/ RecFieldDone
    \/ EvalListExpr
    \/ ListElemDone
    \/ EvalTypedExpr
    \/ TypedExprDone
    \/ ErrorReturn

OpSpec == InitOp /\ [][NextOp]_vars

\* The run is over: LoadModule(m1) has returned to main, or the process has died.
Done == ctl.m = "panic" \/ (kont = <<>> /\ ctl.m \in {"ret", "err"})

(***************************************************************************)
(* Notions the properties are stated in.                                   *)
(***************************************************************************)
RootBody == files[RootFile].body
RootIs(t) == files[RootFile].ok /\ RootBody # NoExpr /\ RootBody.t = t

\* The evaluation of the cell n of frame c has begun and has not returned.
InProgress(c, n) ==
    \E i \in 1..Len(kont) :
        /\ kont[i].k \in {"var", "rlet", "rfield", "mlet", "mpub"}
        /\ kont[i].ctx = c /\ kont[i].name = n

\* A variable reference is about to be evaluated and resolves to a cell in progress.
RefInProgress ==
    /\ Evaluating("var")
    /\ Lookup(frames, ctl.ctx, ctl.expr.name) # 0
    /\ InProgress(Lookup(frames, ctl.ctx, ctl.expr.name), ctl.expr.name)

CyclicError == ctl.m = "err" /\ ctl.err.kind = "cyclic variable dependencies detected"
\* The load of the file f has begun and has not returned.
OnLoadStack(f) == \E i \in 1..Len(kont) : kont[i].k = "LoadModule" /\ kont[i].file = f

LoadCycleError == ctl.m = "err" /\ ctl.err.kind = "LoadModule: load cycle detected"

\* The names an expression mentions outside the scopes it opens itself.
RECURSIVE FreeVars(_)
FreeVars(e) ==
    CASE e.t = "var" -> {e.name}
      [] e.t = "bin" -> FreeVars(e.x) \cup FreeVars(e.y)
      [] e.t = "if" -> FreeVars(e.cond) \cup FreeVars(e.x) \cup FreeVars(e.y)
      [] e.t = "call" -> FreeVars(e.func) \cup UNION {FreeVars(e.args[i]) : i \in 1..Len(e.args)}
      [] e.t = "func" -> FreeVars(e.body) \ {e.params[i] : i \in 1..Len(e.params)}
      [] e.t = "rec" -> (UNION {FreeVars(e.lets[n]) : n \in DOMAIN e.lets}
                         \cup UNION {FreeVars(e.fields[n]) : n \in DOMAIN e.fields})
                        \ (DOMAIN e.lets \cup DOMAIN e.fields)
      [] OTHER -> {}

\* The cells of the root record that the cell n mentions, directly or through other cells.
RootCells == DOMAIN RootBody.lets \cup DOMAIN RootBody.fields
RootCellExpr(n) == IF n \in DOMAIN RootBody.lets THEN RootBody.lets[n] ELSE RootBody.fields[n]
RECURSIVE RefClosure(_)
RefClosure(S) ==
    LET S2 == S \cup UNION {FreeVars(RootCellExpr(n)) \cap RootCells : n \in S}
    IN IF S2 = S THEN S ELSE RefClosure(S2)
ReferencesItself(n) == n \in RefClosure(FreeVars(RootCellExpr(n)) \cap RootCells)

\* Truthiness of a literal, read off the literal.
LiteralIsTrue(e) == IF e.t = "int" THEN e.v # 0 ELSE e.v # ""

C2_CyclicOnlyWhenInProgress ==
    (/\ Evaluating("var")
     /\ Lookup(frames, ctl.ctx, ctl.expr.name) # 0
     /\ ~fullyEvaluated(frames, Lookup(frames, ctl.ctx, ctl.expr.name), ctl.expr.name)
     /\ isActive(frames, Lookup(frames, ctl.ctx, ctl.expr.name), ctl.expr.name))
    => InProgress(Lookup(frames, ctl.ctx, ctl.expr.name), ctl.expr.name)

(***************************************************************************)
(* Module loading                                                          *)
(***************************************************************************)
\* C3: a load whose resolved file is on the load stack fails with the load
\* cycle error, and that error stays the result of every enclosing load and
\* evaluation: the chain neither recurses into the file again nor returns a
\* module.
C3_LoadOfActiveFileFails ==
    [][/\ (/\ ctl.m = "load"
           /\ fileForModule(files, ctl.name).ok
           /\ OnLoadStack(fileForModule(files, ctl.name).filename))
          => (LoadCycleError' /\ filestack' = filestack /\ modules' = modules)
       /\ LoadCycleError => (LoadCycleError' /\ modules' = modules)]_vars

\* m1 loads m2 loads m3 loads m1, and the error has come back to the caller.
C3_Witness ==
    /\ LoadCycleError /\ kont = <<>> /\ filestack = <<>>
    /\ files["m2"].ok /\ files["m3"].ok
    /\ files["m3"].body = Load("m1")

\* C4: at every point of any sequence of nested loads, every cached module is
\* stored under its own file name, its file was parsed, its evaluation has
\* returned without error, and its load is no longer on the load stack.
C4_CachedOnlyAfterSuccess ==
    \A f \in DOMAIN modules :
        /\ modules[f].t = "module" /\ modules[f].name = f
        /\ files[f].ok
        /\ f \in evalOK
        /\ ~OnLoadStack(f)

\* A nested load has been cached while the loading module is still being evaluated.
C4_Witness == DOMAIN modules # {} /\ filestack # <<>> /\ ctl.m = "eval"

\* C5 (as stated): whenever LoadModule returns an error, the cache contains
\* exactly the entries it held when that load was entered.
C5_FailedLoadLeavesCacheUnchanged ==
    [][Failing("LoadModule") => modules' = Top.entry]_vars

\* C5 (amended): a failed load caches nothing for the file that failed and
\* removes or replaces no entry: when LoadModule returns an error the cache
\* holds every entry it held when that load was entered, unchanged, plus
\* exactly the modules whose own nested loads completed successfully in
\* between; a load that fails before evaluation begins changes nothing.
C5_FailedLoadKeepsEntriesAndAddsOnlySuccesses ==
    [][/\ Failing("LoadModule") =>
            /\ ctl'.m = "err"
            /\ Top.file \notin DOMAIN modules'
            /\ \A f \in DOMAIN Top.entry :
                   f \in DOMAIN modules' /\ modules'[f] = Top.entry[f]
            /\ \A f \in DOMAIN modules' \ DOMAIN Top.entry :
                   f \in evalOK /\ f # Top.file /\ ~OnLoadStack(f)
       /\ (ctl.m = "load" /\ ctl'.m = "err") => modules' = modules]_vars

\* A load fails after a load nested in it succeeded and was cached.
C5_Witness ==
    /\ Failing("LoadModule")
    /\ DOMAIN modules \ DOMAIN Top.entry # {}
    /\ Top.file \notin DOMAIN modules

\* C6: a loaded module is evaluated with locals dropped: the frame of every
\* module has the built-ins frame as its parent, so a name that neither the
\* module nor the built-ins define is unbound inside the module, whichever
\* record, function call or module is loading it.
C6_ModuleSeesOnlyBuiltins ==
    /\ \A c \in 1..Len(frames) :
           frames[c].kind = "module" =>
               /\ frames[c].parent = 1
               /\ frames[1].kind = "global" /\ frames[1].parent = 0
               /\ DOMAIN frames[1].env = DOMAIN builtinFunctions
    /\ (Evaluating("var") /\ frames[ctl.ctx].kind = "module"
          /\ ctl.expr.name \notin DOMAIN frames[ctl.ctx].env \cup DOMAIN builtinFunctions)
       => Lookup(frames, ctl.ctx, ctl.expr.name) = 0

\* A loaded module mentions a name that a frame of its loader defines.
C6_Witness ==
    /\ Evaluating("var") /\ frames[ctl.ctx].kind = "module"
    /\ Len(filestack) >= 2
    /\ Lookup(frames, ctl.ctx, ctl.expr.name) = 0
    /\ \E c \in 1..Len(frames) : ctl.expr.name \in DOMAIN frames[c].env

(***************************************************************************)
(* Errors and panics                                                       *)
(***************************************************************************)
\* C7: evaluation returns either a value or an error and never panics: no
\* evaluation of a parsed program ends in a Go runtime panic or a process exit.
C7_NeverPanics == ctl.m # "panic"

\* C8: evaluating i / 0 for int operands returns an evaluation error to the
\* caller of the evaluation.
C8_IntDivByZeroIsError ==
    (/\ Done /\ RootIs("bin")
     /\ RootBody.op = "/" /\ RootBody.x.t = "int" /\ RootBody.y = I0)
    => (ctl.m = "err" /\ kont = <<>>)

(***************************************************************************)
(* Conditionals                                                            *)
(***************************************************************************)
\* The operand of a conditional or of cond that the literal condition c does
\* not select, and the one it selects.
Unchosen(c, x, y) == IF LiteralIsTrue(c) THEN y ELSE x
Chosen(c, x, y) == IF LiteralIsTrue(c) THEN x ELSE y

\* What the evaluation of a branch operand, on its own, ends with.
OperandOutcome(e) ==
    CASE e.t = "int" -> "ret"
      [] e = DivZero -> "panic"
      [] OTHER -> "err"

\* The evaluator is at the expression e itself (not at a part of it).
AtExpr(e) == ctl.m = "eval" /\ ctl.expr = e

\* C9: in `if c then x else y` the unchosen branch is never evaluated, and the
\* outcome of the conditional is the outcome of the chosen branch alone: a
\* program whose unchosen branch would fail succeeds, and the recursive
\* countdown function reaches its base case.
C9_IfEvaluatesOnlyChosenBranch ==
    /\ RootIs("if") =>
        LET c == RootBody.cond
            u == Unchosen(c, RootBody.x, RootBody.y)
            ch == Chosen(c, RootBody.x, RootBody.y)
        IN /\ (u # ch) => ~AtExpr(u)
           /\ Done => /\ ctl.m = OperandOutcome(ch)
                      /\ ctl.m = "ret" => ctl.val.body = IntVal(ch.v)
    /\ (Done /\ RootIs("rec") /\ DOMAIN RootBody.fields = {"y"}) =>
           /\ ctl.m = "ret"
           /\ recs[ctl.val.body.id].Fields = [n \in {"y"} |-> IntVal(1)]

\* A conditional whose unchosen branch fails or panics has returned the value of the other branch.
C9_Witness ==
    /\ RootIs("if") /\ Done /\ ctl.m = "ret"
    /\ Unchosen(RootBody.cond, RootBody.x, RootBody.y) \in {Fail, DivZero}
    /\ ctl.val.body = IntVal(Chosen(RootBody.cond, RootBody.x, RootBody.y).v)

IsCondCall(e) == e.t = "call" /\ e.func = VarExpr("cond") /\ Len(e.args) = 3

\* C10 (as stated): in a call cond(c, x, y) the unchosen argument is never evaluated.
C10_CondNeverEvaluatesUnchosen ==
    (RootIs("call") /\ IsCondCall(RootBody)) =>
        LET u == Unchosen(RootBody.args[1], RootBody.args[2], RootBody.args[3])
            ch == Chosen(RootBody.args[1], RootBody.args[2], RootBody.args[3])
        IN (u # ch) => ~AtExpr(u)

\* C10 (amended): cond is an ordinary built-in function: all three arguments
\* are evaluated, left to right, before it is called, so the call fails or
\* panics as the first argument that fails or panics does, whether or not that
\* argument is the chosen one; when all arguments have values the result is
\* the second if the first is truthy and the third otherwise.
C10_CondEvaluatesAllArguments ==
    (Done /\ RootIs("call") /\ IsCondCall(RootBody)) =>
        LET x == RootBody.args[2]
            y == RootBody.args[3]
            ch == Chosen(RootBody.args[1], x, y)
        IN /\ OperandOutcome(x) # "ret" => ctl.m = OperandOutcome(x)
           /\ (OperandOutcome(x) = "ret" /\ OperandOutcome(y) # "ret") => ctl.m = OperandOutcome(y)
           /\ (OperandOutcome(x) = "ret" /\ OperandOutcome(y) = "ret") =>
                  (ctl.m = "ret" /\ ctl.val.body = IntVal(ch.v))

\* A call of cond has failed with the error of its unchosen argument.
C10_Witness ==
    /\ Done /\ RootIs("call") /\ IsCondCall(RootBody)
    /\ Unchosen(RootBody.args[1], RootBody.args[2], RootBody.args[3]) = Fail
    /\ Chosen(RootBody.args[1], RootBody.args[2], RootBody.args[3]).t = "int"
    /\ ctl.m = "err" /\ ctl.err.kind = "ValError"

(***************************************************************************)
(* Records: field order                                                    *)
(***************************************************************************)
\* A value as a program can observe it: a record by its fields, a closure by
\* its function expression.
RECURSIVE Show(_)
Show(v) ==
    CASE v.t = "rec" ->
           [t |-> "rec",
            fields |-> [n \in DOMAIN recs[v.id].Fields |-> Show(recs[v.id].Fields[n])]]
      [] v.t = "func" -> [t |-> "func", params |-> v.params, body |-> v.body]
      [] OTHER -> v

Value(v) == [ok |-> TRUE, v |-> v]
Failure(kind) == [ok |-> FALSE, kind |-> kind]
ShownPcallResult(value, err) ==
    [t |-> "rec", fields |-> [n \in {"value", "err"} |-> IF n = "value" THEN value ELSE BoolVal(err)]]

\* What an expression of a field of the root record denotes when it is
\* evaluated on demand, with the cells in vis under evaluation: a value or the
\* kind of its first error.  It does not depend on any order of the fields.
RECURSIVE Denote(_, _)
Denote(e, vis) ==
    CASE e.t = "int" -> Value(IntVal(e.v))
      [] e.t = "var" ->
           IF e.name \notin DOMAIN RootBody.fields THEN Failure("unbound variable")
           ELSE IF e.name \in vis THEN Failure("cyclic variable dependencies detected")
           ELSE Denote(RootBody.fields[e.name], vis \cup {e.name})
      [] e.t = "bin" ->
           LET a == Denote(e.x, vis)
               b == Denote(e.y, vis)
           IN IF ~a.ok THEN a ELSE IF ~b.ok THEN b
              ELSE IF a.v.t = "int" /\ b.v.t = "int" THEN Value(IntVal(a.v.v + b.v.v))
              ELSE Failure("incompatible types")
      [] e.t = "if" ->
           LET c == Denote(e.cond, vis)
           IN IF ~c.ok THEN c
              ELSE IF c.v # IntVal(0) THEN Denote(e.x, vis) ELSE Denote(e.y, vis)
      [] e.t = "call" /\ e.func = VarExpr("error") -> Failure("ValError")
      [] e.t = "call" /\ e.func = VarExpr("pcall") ->
           LET r == Denote(e.args[1].body, vis)
           IN IF r.ok THEN Value(ShownPcallResult(r.v, FALSE))
              ELSE IF r.kind = "ValError" THEN Value(ShownPcallResult(IntVal(7), TRUE))
              ELSE r
      [] e.t = "call" /\ e.func = VarExpr("cond") ->
           LET c == Denote(e.args[1], vis)
               a == Denote(e.args[2], vis)
               b == Denote(e.args[3], vis)
           IN IF ~c.ok THEN c ELSE IF ~a.ok THEN a ELSE IF ~b.ok THEN b ELSE a
      [] OTHER -> Failure("not covered")

IsPair ==
    RootIs("rec") /\ DOMAIN RootBody.lets = {} /\ DOMAIN RootBody.fields = {"x", "y"}
FieldDenotes(n) == Denote(RootBody.fields[n], {n})
FieldsReferToEachOther ==
    "y" \in FreeVars(RootBody.fields["x"]) \/ "x" \in FreeVars(RootBody.fields["y"])
DenotedRecord ==
    [t |-> "rec", fields |-> [n \in {"x", "y"} |-> FieldDenotes(n).v]]

\* C11 (as stated): the result of { x: e1  y: e2 } is the same whichever field
\* is taken first: the record of the values the fields denote, or, when fields
\* that refer to each other fail, one and the same error (the one met when x
\* is taken first).
C11_BothOrdersSameValueOrSameError ==
    (Done /\ IsPair) =>
        IF FieldDenotes("x").ok /\ FieldDenotes("y").ok
        THEN ctl.m = "ret" /\ Show(ctl.val.body) = DenotedRecord
        ELSE FieldsReferToEachOther =>
               /\ ctl.m = "err"
               /\ ctl.err.kind = IF ~FieldDenotes("x").ok THEN FieldDenotes("x").kind
                                 ELSE FieldDenotes("y").kind

\* C11 (amended): whichever field of { x: e1  y: e2 } is taken first, the
\* evaluation succeeds exactly when both fields denote values, and then yields
\* the record of these values; otherwise it fails in every order, with the
\* error of the failing field that is met first, which may differ from one
\* order to the other.
C11_BothOrdersSameValueOrBothFail ==
    (Done /\ IsPair) =>
        IF FieldDenotes("x").ok /\ FieldDenotes("y").ok
        THEN ctl.m = "ret" /\ Show(ctl.val.body) = DenotedRecord
        ELSE ctl.m = "err"

\* A record whose field x is computed from its field y has been evaluated.
C11_Witness ==
    /\ Done /\ IsPair /\ ctl.m = "ret"
    /\ RootBody.fields["x"] = BinaryExpr("+", VarExpr("y"), I1)
    /\ Show(ctl.val.body).fields["x"] = IntVal(2)

(***************************************************************************)
(* C12 - C17 are about single operations and are checked under OpSpec.     *)
(* A step of BinaryRightDone applies the operator Top.e.op to the operands *)
(* Top.x and ctl.val and leaves the outcome in ctl'.                       *)
(***************************************************************************)
Applies(op) == Returning("binY") /\ Top.e.op = op
Finished == kont = <<>> /\ ctl.m = "ret"

\* The record r of the heap rs holds, for every field of both x and y, the
\* merge of the two values when both are records and else y's value, at
\* every depth.
RECURSIVE RightOverrides(_, _, _, _)
RightOverrides(x, y, r, rs) ==
    \A f \in DOMAIN rs[x].Fields \cap DOMAIN rs[y].Fields :
        LET vx == rs[x].Fields[f]
            vy == rs[y].Fields[f]
            vr == rs[r].Fields[f]
        IN IF vx.t = "rec" /\ vy.t = "rec"
           THEN vr.t = "rec" /\ vr.id \notin {vx.id, vy.id} /\ RightOverrides(vx.id, vy.id, vr.id, rs)
           ELSE vr = vy

\* The same, but where only x's field carries an annotation that names a unit
\* multiplier, y's unit value is held in that multiplier.
RECURSIVE RightOverridesRescaled(_, _, _, _)
RightOverridesRescaled(x, y, r, rs) ==
    \A f \in DOMAIN rs[x].Fields \cap DOMAIN rs[y].Fields :
        LET vx == rs[x].Fields[f]
            vy == rs[y].Fields[f]
            vr == rs[r].Fields[f]
            rescaled == /\ f \in DOMAIN rs[x].FieldAnnotations
                        /\ f \notin DOMAIN rs[y].FieldAnnotations
                        /\ rs[x].FieldAnnotations[f].M > 0
                        /\ vy.t = "unit"
        IN IF vx.t = "rec" /\ vy.t = "rec"
           THEN /\ vr.t = "rec" /\ vr.id \notin {vx.id, vy.id}
                /\ RightOverridesRescaled(vx.id, vy.id, vr.id, rs)
           ELSE IF rescaled THEN vr = WithF(vy, rs[x].FieldAnnotations[f].M)
           ELSE vr = vy

\* C12 as stated: when a @ b yields a record, every field of both a and b
\* holds in it the recursive merge of the two values when both are records, and
\* else b's value, at every nesting depth.
C12_CommonFieldHoldsRightValue ==
    [][(Applies("@") /\ ctl'.m = "ret")
        => RightOverrides(Top.x.id, ctl.val.id, ctl'.val.id, recs')]_vars

\* C12 amended: when a @ b yields a record, every field of both a and b holds
\* in it the recursive merge of the two values when both are records, and else
\* b's value, at every nesting depth; b's value is rescaled to the multiplier
\* of a's annotation when only a's field is annotated with a unit multiplier.
\* Without annotations the field holds b's value as it is.
C12_CommonFieldHoldsRightValueOrRescaled ==
    [][(Applies("@") /\ ctl'.m = "ret")
        => /\ RightOverridesRescaled(Top.x.id, ctl.val.id, ctl'.val.id, recs')
           /\ (recs[Top.x.id].FieldAnnotations = EmptyMap
                 => RightOverrides(Top.x.id, ctl.val.id, ctl'.val.id, recs'))]_vars

\* {k: {k: 1}} @ {k: {k: 2}} has ended: the merged record holds under k a
\* record of its own, which holds 2 under k.
C12_Witness ==
    /\ Finished /\ ctl.val.t = "rec" /\ Len(recs) = 6 /\ ctl.val.id = 5
    /\ recs[2].Fields = Field("k", IntVal(1))
    /\ recs[4].Fields = Field("k", IntVal(2))
    /\ recs[5].Fields = Field("k", RecVal(6))
    /\ recs[6].Fields = Field("k", IntVal(2))

\* Field f of record r is field f of record x: the same value and the same
\* annotation, or none.
SameField(rs, r, x, f) ==
    /\ rs[r].Fields[f] = rs[x].Fields[f]
    /\ f \in DOMAIN rs[r].FieldAnnotations <=> f \in DOMAIN rs[x].FieldAnnotations
    /\ f \in DOMAIN rs[x].FieldAnnotations
         => rs[r].FieldAnnotations[f] = rs[x].FieldAnnotations[f]

DisjointRecords(x, y, rs) ==
    /\ x.t = "rec" /\ y.t = "rec"
    /\ DOMAIN rs[x.id].Fields \cap DOMAIN rs[y.id].Fields = {}

\* C13: for records a and b with disjoint key sets, a @ b is a new record whose
\* fields are those of a and those of b, each with the value and the annotation
\* it has on its side; so a @ {} has the fields, values and annotations of a.
C13_DisjointMergeIsUnion ==
    [][(Applies("@") /\ DisjointRecords(Top.x, ctl.val, recs))
        => /\ ctl'.m = "ret" /\ ctl'.val.t = "rec"
           /\ ctl'.val.id \notin {Top.x.id, ctl.val.id}
           /\ LET r == ctl'.val.id
                  a == Top.x.id
                  b == ctl.val.id
              IN /\ DOMAIN recs'[r].Fields = DOMAIN recs[a].Fields \cup DOMAIN recs[b].Fields
                 /\ \A f \in DOMAIN recs[a].Fields : SameField(recs', r, a, f)
                 /\ \A f \in DOMAIN recs[b].Fields : SameField(recs', r, b, f)
                 /\ recs[b].Fields = EmptyMap
                      => /\ recs'[r].Fields = recs[a].Fields
                         /\ recs'[r].FieldAnnotations = recs[a].FieldAnnotations
                 /\ recs'[a] = recs[a] /\ recs'[b] = recs[b]]_vars

\* {k::int: 1} @ {j: 2} has ended in a record with both fields, k annotated.
C13_Witness ==
    /\ Finished /\ ctl.val = RecVal(3) /\ Len(recs) = 3
    /\ recs[1].FieldAnnotations = Field("k", FieldAnnotation("int", 0))
    /\ recs[2].Fields = Field("j", IntVal(2))
    /\ recs[3].Fields = [f \in {"k", "j"} |-> IF f = "k" THEN IntVal(1) ELSE IntVal(2)]
    /\ recs[3].FieldAnnotations = Field("k", FieldAnnotation("int", 0))

\* The literal n::u, and the quantity n * F_u it denotes (in millis) when that
\* stays below 2^30.
IsUnitLiteral(e) == e.t = "typed" /\ e.x.t = "int" /\ e.T \in UnitNames
Fits(e) == e.x.v = 0 \/ builtinTypeDuration[e.T] <= (2 ^ 30) \div e.x.v
QuantityOf(e) == e.x.v * builtinTypeDuration[e.T]

\* A step that converts the sum x + y of two unit literals to the unit Top.e.T.
ConvertsSum ==
    /\ Returning("typed") /\ Top.e.T \in UnitNames
    /\ Top.e.x.t = "bin" /\ Top.e.x.op = "+"
    /\ IsUnitLiteral(Top.e.x.x) /\ IsUnitLiteral(Top.e.x.y)
    /\ Fits(Top.e.x.x) /\ Fits(Top.e.x.y)

\* C14 as stated: the sum x + y of two values of duration is a value of
\* duration, and converted to any unit c its magnitude is the float64
\* (x * F_x + y * F_y) / F_c.
C14_SumInAnyMultiplierIsQuotient ==
    [][ConvertsSum
        => /\ ctl.val.t = "unit" /\ ctl.val.T = "duration"
           /\ ctl'.m = "ret"
           /\ ctl'.val = UnitVal(F64DivNat(QuantityOf(Top.e.x.x) + QuantityOf(Top.e.x.y),
                                           builtinTypeDuration[Top.e.T]),
                                 builtinTypeDuration[Top.e.T], "duration")]_vars

\* (3600000::millis + 0::millis)::hours has ended in a value that is not 1::hours.
C14_HourOfMillisIsNotOneHour ==
    /\ Finished
    /\ ctl.val = UnitVal(F64Mul(F64FromInt(3600000), F64DivNat(1, 3600000)), 3600000, "duration")
    /\ ctl.val.V # F64FromInt(1)

\* A step that adds or subtracts two unit values of one type.
CombinesUnits ==
    /\ Returning("binY") /\ Top.e.op \in {"+", "-"}
    /\ Top.x.t = "unit" /\ ctl.val.t = "unit" /\ Top.x.T = ctl.val.T

Finer(f, g) == IF f < g THEN f ELSE g

\* The magnitude of u in the multiplier f, a divisor of u's own: u.V times the
\* ratio of the two multipliers.
RescaledBy(u, f) == IF u.F = f THEN u.V ELSE F64Mul(u.V, F64FromInt(u.F \div f))

\* C15: the sum or difference of two unit values of one type is a value of that
\* type in the smaller of the two multipliers; its magnitude is the sum or
\* difference of the operands' magnitudes, the one in the larger multiplier
\* first multiplied by the ratio of the multipliers.
C15_ResultCarriesFinerMultiplier ==
    [][CombinesUnits
        => LET f == Finer(Top.x.F, ctl.val.F)
               a == RescaledBy(Top.x, f)
               b == RescaledBy(ctl.val, f)
           IN /\ ctl'.m = "ret"
              /\ ctl'.val = UnitVal(IF Top.e.op = "+" THEN F64Add(a, b) ELSE F64Sub(a, b),
                                    f, Top.x.T)]_vars

\* 7::minutes + 3::seconds has ended in 423::seconds.
C15_Witness ==
    /\ Finished
    /\ ctl.val = UnitVal(F64FromInt(423), builtinTypeDuration["seconds"], "duration")

\* A step that compares two unit values of one type with op.
ComparesUnits(op) ==
    /\ Applies(op) /\ Top.x.t = "unit" /\ ctl.val.t = "unit" /\ Top.x.T = ctl.val.T

\* A step that compares (n1::u1)::c with n2::c, both denoting one quantity.
ComparesConvertedEqualQuantities ==
    /\ Applies("==")
    /\ Top.e.x.t = "typed" /\ IsUnitLiteral(Top.e.x.x) /\ IsUnitLiteral(Top.e.y)
    /\ Top.e.x.T = Top.e.y.T
    /\ Fits(Top.e.x.x) /\ Fits(Top.e.y)
    /\ QuantityOf(Top.e.x.x) = QuantityOf(Top.e.y)

\* C16 as stated: == and != on two unit values of one type compare magnitude
\* and multiplier as held, so that values in different multipliers are never
\* equal; and a value converted to the multiplier of another value that denotes
\* the same quantity is equal to it.
C16_UnitEqualityAsHeld ==
    [][/\ ComparesUnits("==") => ctl' = Ret(BoolVal(Top.x.V = ctl.val.V /\ Top.x.F = ctl.val.F))
       /\ ComparesUnits("!=") => ctl' = Ret(BoolVal(~(Top.x.V = ctl.val.V /\ Top.x.F = ctl.val.F)))
       /\ (ComparesUnits("==") /\ Top.x.F # ctl.val.F) => ctl' = Ret(BoolVal(FALSE))
       /\ ComparesConvertedEqualQuantities => ctl' = Ret(BoolVal(TRUE))]_vars

\* The part of C16 that holds: values are compared as held, and values in
\* different multipliers are never equal.
C16_DifferentMultipliersNeverEqual ==
    [][/\ ComparesUnits("==") => ctl' = Ret(BoolVal(Top.x.V = ctl.val.V /\ Top.x.F = ctl.val.F))
       /\ ComparesUnits("!=") => ctl' = Ret(BoolVal(~(Top.x.V = ctl.val.V /\ Top.x.F = ctl.val.F)))
       /\ (ComparesUnits("==") /\ Top.x.F # ctl.val.F) => ctl' = Ret(BoolVal(FALSE))]_vars

\* A step that compares with op two records, or two lists, built by separate
\* expressions.
ComparesDistinct(op, t) ==
    /\ Applies(op) /\ Top.x.t = t /\ ctl.val.t = t
    /\ Top.e.x.t = t /\ Top.e.y.t = t

\* C17 as stated: two records, and two lists, built by separate expressions
\* are never equal: == yields false and != yields true.
C17_DistinctRecordsAndListsNeverEqual ==
    [][\A t \in {"rec", "list"} :
         /\ ComparesDistinct("==", t) => ctl' = Ret(BoolVal(FALSE))
         /\ ComparesDistinct("!=", t) => ctl' = Ret(BoolVal(TRUE))]_vars

\* The part of C17 that holds: two records built by separate expressions are
\* never equal.
C17_DistinctRecordsNeverEqual ==
    [][/\ ComparesDistinct("==", "rec") => ctl' = Ret(BoolVal(FALSE))
       /\ ComparesDistinct("!=", "rec") => ctl' = Ret(BoolVal(TRUE))]_vars

(***************************************************************************)
(* C18 - C20 are about the evaluation of whole programs (Spec).            *)
(***************************************************************************)
IsScopeProgram == RootIs("rec") /\ RootBody \in ScopePrograms

\* In a scope program: the value of n + k in the environment the closure f
\* was made in, if n is bound there.
HasLexicalN == {"n", "adder"} \cap DOMAIN RootBody.lets # {}
LexicalN == IF "n" \in DOMAIN RootBody.lets THEN RootBody.lets["n"].v
            ELSE RootBody.lets["f"].args[1].v
LexicalSum == LexicalN + RootBody.fields["site"].fields["a"].args[1].v

\* C18: the body of a closure is evaluated in a fresh frame that holds the
\* parameters and whose parent is the environment the closure captured; so a
\* free variable of the body has the value it has where the closure was made,
\* and is unbound if it is bound only where the closure is called.
C18_ClosureBodyRunsInCapturedEnv ==
    [][/\ (ctl.m = "call" /\ ctl.f.t = "func" /\ Len(ctl.args) = Len(ctl.f.params))
            => /\ Len(frames') = Len(frames) + 1
               /\ frames'[Len(frames')].parent = ctl.f.ctx
               /\ frames'[Len(frames')].active = {}
               /\ DOMAIN frames'[Len(frames')].env = {ctl.f.params[i] : i \in DOMAIN ctl.f.params}
               /\ \A i \in DOMAIN ctl.f.params :
                    frames'[Len(frames')].env[ctl.f.params[i]].val = ctl.args[i]
               /\ ctl' = EvalAt(ctl.f.body, Len(frames'))
       /\ IsScopeProgram
            => \A i \in DOMAIN recs' :
                 "a" \in DOMAIN recs'[i].Fields
                    => HasLexicalN /\ recs'[i].Fields["a"] = IntVal(LexicalSum)]_vars

\* A scope program has ended: f(k) was called where n is 3 and yielded the sum
\* of k and the n of the place where f was made.
C18_Witness ==
    /\ IsScopeProgram /\ Done /\ ctl.m = "ret"
    /\ \E i \in DOMAIN recs :
         /\ DOMAIN recs[i].Fields = {"n", "a"}
         /\ recs[i].Fields["n"] = IntVal(3)
         /\ recs[i].Fields["a"] = IntVal(LexicalSum)
         /\ LexicalSum # 3 + RootBody.fields["site"].fields["a"].args[1].v

(***************************************************************************)
(* C19: what pcall intercepts                                              *)
(***************************************************************************)
\* The call pcall made of its first argument has come back.
PcallReturns == kont # <<>> /\ Top.k = "pcall" /\ ctl.m \in {"ret", "err"}

\* The step yields a fresh record {value: v, err: e}.
YieldsPcallResult(v, e) ==
    /\ ctl'.m = "ret" /\ ctl'.val.t = "rec"
    /\ ctl'.val.id \in DOMAIN recs' /\ ctl'.val.id \notin DOMAIN recs
    /\ DOMAIN recs'[ctl'.val.id].Fields = {"value", "err"}
    /\ recs'[ctl'.val.id].Fields["value"] = v
    /\ recs'[ctl'.val.id].Fields["err"] = BoolVal(e)

\* C19: pcall yields {value: v, err: true} exactly when the call failed with
\* the error of error(v), whatever wraps it; it yields {value: r, err: false}
\* when the call returned r; every other error leaves pcall as it came in.
\* An error of the intercepted kind comes from error(v) alone.
C19_PcallInterceptsOnlyUserErrors ==
    [][/\ PcallReturns =>
            /\ kont' = Tail(kont)
            /\ ctl.m = "ret" => YieldsPcallResult(ctl.val, FALSE)
            /\ (ctl.m = "err" /\ ctl.err.kind = "ValError")
                  => YieldsPcallResult(ctl.err.val, TRUE)
            /\ (ctl.m = "err" /\ ctl.err.kind # "ValError")
                  => ctl' = ctl /\ recs' = recs
       /\ (ctl'.m = "err" /\ ctl'.err.kind = "ValError" /\ ctl.m # "err")
            => CallingNative("error") /\ ctl'.err.val = ctl.args[1]]_vars

\* pcall has just turned a wrapped error(7) into {value: 7, err: true}.
C19_Witness ==
    /\ ctl.m = "ret" /\ ctl.val.t = "rec"
    /\ ctl.val.id = Len(recs)
    /\ DOMAIN recs[ctl.val.id].Fields = {"value", "err"}
    /\ recs[ctl.val.id].Fields["value"] = IntVal(7)
    /\ recs[ctl.val.id].Fields["err"] = BoolVal(TRUE)


(***************************************************************************)
(* C20: the active set on the error paths                                  *)
(***************************************************************************)
\* The activations that evaluate the expression of a lazy cell.
CellActivations == {"var", "rlet", "rfield", "mlet", "mpub"}

\* The evaluation of the cell on top has failed and the error is about to leave it.
CellFails == ctl.m = "err" /\ kont # <<>> /\ Top.k \in CellActivations

\* C20: when the evaluation of a cell's expression fails, the cell's name is
\* not in the active set of its frame once the error has left that evaluation.
C20_FailedCellNotActive ==
    [][CellFails => Top.name \notin frames'[Top.ctx].active]_vars

\* A program has ended with an error while a cell that is not being
\* evaluated is still marked active.
C20_ActiveAfterFailure ==
    /\ Done /\ ctl.m = "err"
    /\ \E c \in DOMAIN frames : \E n \in frames[c].active : ~InProgress(c, n)

(***************************************************************************)
(* C21: a lazy cell gets its value once                                    *)
(***************************************************************************)
\* The step starts the evaluation of the expression of a lazy cell.
CellStarts ==
    /\ Len(kont') = Len(kont) + 1
    /\ Head(kont').k \in CellActivations
    /\ ctl'.m = "eval"

HasValue(fr, c, n) == fr[c].env[n].val # NoVal

\* C21 as stated: the expression of a cell is evaluated once, that is, the
\* evaluation of a cell never starts for a cell that has a value or whose
\* evaluation has started before.
C21_EachCellEvaluatedOnce ==
    [][CellStarts =>
          /\ ~HasValue(frames, Head(kont').ctx, Head(kont').name)
          /\ Head(kont').name \notin frames[Head(kont').ctx].active]_vars

\* C21: a cell goes from expression to value at most once.  The evaluation of
\* a cell starts only for a cell without a value, the expression evaluated is
\* the one stored in the cell, a variable reference never starts the
\* evaluation of a cell that is marked active, and a cell that has a value
\* keeps it in every later state.
C21_CellGetsValueOnce ==
    [][/\ CellStarts =>
            /\ ~HasValue(frames, Head(kont').ctx, Head(kont').name)
            /\ ctl'.expr = frames[Head(kont').ctx].env[Head(kont').name].expr
            /\ ctl'.ctx = Head(kont').ctx
            /\ Head(kont').k = "var" => Head(kont').name \notin frames[Head(kont').ctx].active
       /\ \A c \in DOMAIN frames : \A n \in DOMAIN frames[c].env :
            HasValue(frames, c, n) => frames'[c].env[n] = frames[c].env[n]]_vars

\* The loop over the fields of a record meets a field that another cell has
\* forced before: it has its value and is no longer marked active.
C21_Witness ==
    /\ ctl.m = "rfields"
    /\ \E n \in ctl.todo :
         /\ HasValue(frames, ctl.ctx, n)
         /\ n \notin frames[ctl.ctx].active
         /\ \E o \in DOMAIN ctl.e.fields \ ctl.todo : HasValue(frames, ctl.ctx, o)

(***************************************************************************)
(* C22: the load stack                                                     *)
(***************************************************************************)
\* The files of the loads that have pushed their file and not returned,
\* outermost first, as the activations k show them.
RECURSIVE LoadsOf(_)
LoadsOf(k) ==
    IF k = <<>> THEN <<>>
    ELSE IF Head(k).k = "LoadModule" THEN Append(LoadsOf(Tail(k)), Head(k).file)
    ELSE LoadsOf(Tail(k))

\* LoadModule returns before it has pushed the file / after EvalModule.
LoadReturnsEarly == ctl.m = "load" /\ ctl'.m \in {"ret", "err"}
LoadReturnsLate == kont # <<>> /\ Top.k = "LoadModule" /\ ctl.m \in {"ret", "err"}

\* C22: the load stack holds exactly the files of the loads in progress; a
\* load that returns, with a module or with an error of any stage, leaves the
\* stack as it was when the load was entered.
C22_LoadStackRestored ==
    [][/\ filestack = LoadsOf(kont)
       /\ LoadReturnsEarly => filestack' = filestack /\ kont' = kont
       /\ LoadReturnsLate =>
            /\ kont' = Tail(kont)
            /\ filestack' = LoadsOf(Tail(kont))
            /\ Append(filestack', Top.file) = filestack
       /\ filestack' = LoadsOf(kont')]_vars

\* A load made from m1 has failed in the evaluation of the loaded module and
\* has returned: m1 alone is on the stack again.
C22_Witness ==
    /\ ctl.m = "err" /\ ctl.err.wraps # <<>>
    /\ ctl.err.wraps[Len(ctl.err.wraps)] = "LoadModule: failed to evaluate module"
    /\ kont # <<>> /\ Top.k = "builtinLoad"
    /\ filestack = <<"m1">>

(***************************************************************************)
(* C23: loads of a cached module                                           *)
(***************************************************************************)
\* The load of a file that is in the module cache.
LoadsCached == ctl.m = "load" /\ ctl.name \in DOMAIN modules

\* C23 as stated: a module file is evaluated at most once.
C23_ModuleEvaluatedAtMostOnce ==
    \A i, j \in DOMAIN evalBegun : evalBegun[i] = evalBegun[j] => i = j

\* C23: the load of a file that is in the cache returns the cached module
\* and neither evaluates anything nor touches the load stack; a file in the
\* cache is never evaluated again, and its entry stays the same module.
C23_CachedModuleReturned ==
    [][/\ LoadsCached =>
            /\ ctl' = Ret(modules[ctl.name])
            /\ UNCHANGED <<frames, recs, modules, filestack, kont, evalBegun, types, typs>>
       /\ evalBegun' # evalBegun =>
            /\ evalBegun' = Append(evalBegun, ctl.name)
            /\ ctl.name \notin DOMAIN modules
       /\ \A f \in DOMAIN modules : f \in DOMAIN modules' /\ modules'[f] = modules[f]]_vars

\* The second load of m2 by m1 has returned the module the first load
\* stored; m2 was evaluated once.
C23_Witness ==
    /\ ctl.m = "ret" /\ ctl.val.t = "module" /\ ctl.val.name = "m2"
    /\ kont # <<>> /\ Top.k = "builtinLoad"
    /\ \E i \in DOMAIN kont : kont[i].k = "mpub" /\ kont[i].name = "p"
    /\ HasValue(frames, 2, "u")
    /\ evalBegun = <<"m1", "m2">>
    /\ modules["m2"] = ctl.val

(***************************************************************************)
(* C25: annotations in a merge                                             *)
(***************************************************************************)
\* a @ b is about to be computed from two records.
MergesRecords == Applies("@") /\ Top.x.t = "rec" /\ ctl.val.t = "rec"

Annotated(rs, r, f) == f \in DOMAIN rs[r].FieldAnnotations

\* Field f of b has the type of the annotation of field f of a.
FitsLeftAnnotation(rs, a, b, f) == Typ(rs[b].Fields[f]) = rs[a].FieldAnnotations[f].T

\* C25: for a field of both a and b that only a annotates, a @ b fails unless
\* b's value has the type of a's annotation; when a @ b succeeds such a field
\* carries a's annotation and b's value, a unit value rescaled to the
\* multiplier the annotation names; a field that b annotates carries b's
\* annotation; a field that neither annotates carries none.
C25_AnnotationMergeRule ==
    [][MergesRecords =>
         LET a == Top.x.id
             b == ctl.val.id
             common == DOMAIN recs[a].Fields \cap DOMAIN recs[b].Fields
             onlyLeft(f) == Annotated(recs, a, f) /\ ~Annotated(recs, b, f)
         IN /\ (\E f \in common : onlyLeft(f) /\ ~FitsLeftAnnotation(recs, a, b, f))
                 => ctl'.m = "err"
            /\ ctl'.m = "ret" =>
                 \A f \in common :
                    LET r == ctl'.val.id
                        vy == recs[b].Fields[f]
                        vr == recs'[r].Fields[f]
                    IN /\ onlyLeft(f) =>
                            /\ FitsLeftAnnotation(recs, a, b, f)
                            /\ Annotated(recs', r, f)
                            /\ recs'[r].FieldAnnotations[f] = recs[a].FieldAnnotations[f]
                            /\ (vy.t = "unit" /\ recs[a].FieldAnnotations[f].M > 0)
                                 => /\ vr.t = "unit" /\ vr.T = vy.T
                                    /\ vr.F = recs[a].FieldAnnotations[f].M
                                    /\ vr = WithF(vy, vr.F)
                            /\ (vy.t \notin {"unit", "rec"} \/ recs[a].FieldAnnotations[f].M = 0)
                                 => vr = vy
                       /\ Annotated(recs, b, f) =>
                            /\ Annotated(recs', r, f)
                            /\ recs'[r].FieldAnnotations[f] = recs[b].FieldAnnotations[f]
                            /\ vy.t # "rec" => vr = vy
                       /\ (~Annotated(recs, a, f) /\ ~Annotated(recs, b, f))
                            => ~Annotated(recs', r, f)]_vars

\* {k::seconds: x} @ {k: 1::minutes} has ended: k holds 60 seconds and the
\* annotation of the left operand.
C25_Witness ==
    /\ Finished /\ ctl.val.t = "rec"
    /\ DOMAIN recs[ctl.val.id].Fields = {"k"}
    /\ recs[ctl.val.id].Fields["k"] = UnitVal(F64FromInt(60), builtinTypeDuration["seconds"], "duration")
    /\ Annotated(recs, ctl.val.id, "k")
    /\ recs[ctl.val.id].FieldAnnotations["k"] =
          FieldAnnotation("duration", builtinTypeDuration["seconds"])
    /\ Len(recs) = 3
    /\ DOMAIN recs[2].Fields = {"k"}
    /\ ~Annotated(recs, 2, "k")
    /\ recs[2].Fields["k"] = UnitVal(F64FromInt(1), builtinTypeDuration["minutes"], "duration")

(***************************************************************************)
(* C26: records after their construction                                   *)
(***************************************************************************)
\* evalRec has allocated the record i and has not returned it yet.
UnderConstruction(i) ==
    \/ ctl.m = "rfields" /\ ctl.rec = i
    \/ \E j \in DOMAIN kont : kont[j].k = "rfield" /\ kont[j].rec = i

\* C26: no step changes a record that evalRec has returned or that any other
\* operation has made: every such record keeps its fields, values and
\* annotations, and a @ b yields a record that did not exist before, as is
\* every record nested in it under a field that both a and b hold a record for.
C26_RecordsNeverMutated ==
    [][/\ \A i \in DOMAIN recs :
            ~UnderConstruction(i) => i \in DOMAIN recs' /\ recs'[i] = recs[i]
       /\ (MergesRecords /\ ctl'.m = "ret") =>
            /\ ctl'.val.t = "rec" /\ ctl'.val.id \notin DOMAIN recs
            /\ \A i \in DOMAIN recs : recs'[i] = recs[i]
            /\ \A f \in DOMAIN recs[Top.x.id].Fields \cap DOMAIN recs[ctl.val.id].Fields :
                 (recs[Top.x.id].Fields[f].t = "rec" /\ recs[ctl.val.id].Fields[f].t = "rec")
                    => recs'[ctl'.val.id].Fields[f].id \notin DOMAIN recs]_vars

\* {k: {k: 1}} @ {k: {j: 1}} has ended: the operands and the records nested
\* in them are as they were made, the result and the record under its k are new.
C26_Witness ==
    /\ Finished /\ ctl.val = RecVal(5) /\ Len(recs) = 6
    /\ recs[1].Fields = Field("k", RecVal(2))
    /\ recs[2].Fields = Field("k", IntVal(1))
    /\ recs[3].Fields = Field("k", RecVal(4))
    /\ recs[4].Fields = Field("j", IntVal(1))
    /\ recs[5].Fields = Field("k", RecVal(6))
    /\ DOMAIN recs[6].Fields = {"k", "j"}

(***************************************************************************)
(* The global type registry (defineType, EvalModule, LoadModule).  The     *)
(* activation of LoadModule remembers in its field types the registry it   *)
(* was entered with.                                                       *)
(***************************************************************************)
\* The names a module's unit declarations register.
DeclaredNames(mod) ==
    UNION {{mod.units[i].name} \cup DOMAIN mod.units[i].multiples.fields :
              i \in DOMAIN mod.units}

\* The step in which EvalModule defines a unit type.
DefinesType == Returning("munit") /\ ctl'.m = "munits"

\* C28: a module load that fails leaves the type registry as it was before the
\* load: no name that the failing module's unit declarations register resolves,
\* after the load, to anything but what it resolved to before the load.
C28_FailedLoadLeavesRegistry ==
    [][(LoadReturnsLate /\ ctl.m = "err")
         => \A n \in DeclaredNames(files[Top.file]) :
               /\ (n \in DOMAIN types') = (n \in DOMAIN Top.types)
               /\ n \in DOMAIN types' => types'[n] = Top.types[n]]_vars

\* A load of m2 has failed after m2 declared dist, and m1 went on to name the
\* unit m: 1::m has a value of the type dist of the failed module.
C28_FailedModuleTypeUsed ==
    /\ "m2" \notin DOMAIN modules /\ "m2" \notin evalOK
    /\ ctl.m = "ret" /\ ctl.val.t = "unit" /\ ctl.val.T = TypHandle(1)
    /\ filestack = <<"m1">>

\* C29: declaring a unit type never changes what an already-registered name
\* resolves to: in the step that defines a type, every name that was in the
\* registry still resolves to the same type.
C29_DeclarationKeepsNames ==
    [][DefinesType => \A n \in DOMAIN types : types'[n] = types[n]]_vars

\* The name seconds of duration has been taken by a declared unit type.
C29_BuiltinUnitTaken == types["seconds"] # "duration"

(***************************************************************************)
(* Annotated fields and the siblings that name them (evalRec).             *)
(***************************************************************************)
\* evalRec is about to return the record.
RecordFinished == ctl.m = "rfields" /\ ctl.todo = {}

\* C30: a sibling that names an annotated field observes the value the
\* finished record holds for that field: a field whose expression is the name
\* of an annotated field has, in the finished record, the value of that field.
C30_SiblingSeesRecordValue ==
    RecordFinished =>
        \A n \in DOMAIN ctl.e.types : \A o \in DOMAIN ctl.e.fields :
            ctl.e.fields[o] = VarExpr(n)
                => recs[ctl.rec].Fields[o] = recs[ctl.rec].Fields[n]

\* The record { d::seconds: 1::minutes  seen: d } is finished: d is 60 seconds
\* and seen is 1 minute.
C30_SiblingSeesRawValue ==
    /\ RecordFinished /\ ctl.e = Rescaled("minutes")
    /\ recs[ctl.rec].Fields["d"].F = builtinTypeDuration["seconds"]
    /\ recs[ctl.rec].Fields["seen"].F = builtinTypeDuration["minutes"]

(***************************************************************************)
(* The scanner (scanner.go).  The input is a sequence of characters; a     *)
(* Scanner is its input, the offsets pos and mark into it (counted from 0, *)
(* as the program counts) and the offset off of a child scanner in the     *)
(* input of its parent.                                                    *)
(***************************************************************************)
DQ == "\""
SQ == "'"
DOLLAR == "$"
LB == "{"
RB == "}"
BS == "\\"
NL == "\n"
SP == " "
Letters == {"a"}

NewScanner(input) == [input |-> input, pos |-> 0, mark |-> 0, off |-> 0]
AtEnd(s) == s.pos >= Len(s.input)
peek(s) == IF AtEnd(s) THEN "" ELSE s.input[s.pos + 1]
advance(s) == IF AtEnd(s) THEN s ELSE [s EXCEPT !.pos = @ + 1]
setMark(s) == [s EXCEPT !.mark = s.pos]
tpos(s) == s.pos + s.off
tmark(s) == s.mark + s.off
val(s) == SubSeq(s.input, s.mark + 1, s.pos)

\* childScanner(start, end)
childScanner(s, start, end) ==
    [input |-> SubSeq(s.input, start + 1, IF end >= Len(s.input) THEN Len(s.input) ELSE end),
     pos |-> 0, mark |-> 0, off |-> start]

\* Scanner.failat and Scanner.fail: the ScanError and its position
failat(pos, msg) == [ok |-> FALSE, pos |-> pos, msg |-> msg]
fail(s, msg) == failat(s.mark, msg)

\* Scanner.tokenVal and Scanner.token
tokenVal(s, typ, v) ==
    [ok |-> TRUE, s |-> s,
     tok |-> [Typ |-> typ, Pos |-> tmark(s), End |-> tpos(s), Val |-> v, Fmt |-> <<>>]]
token(s, typ) == tokenVal(s, typ, val(s))

\* token.FormatStrPart and token.FormattedValue, the parts of a format string
FormatStrPart(v, pos, end) ==
    [kind |-> "part", Val |-> v, Tokens |-> <<>>, Pos |-> pos, End |-> end]
FormattedValue(toks, pos, end) ==
    [kind |-> "value", Val |-> <<>>, Tokens |-> toks, Pos |-> pos, End |-> end]

\* Variant: the interpolated expression ends at the first closing brace.
endsExpr_AnyBrace(r, depth, inString) == r = RB

\* skipFormatStringExpr, case '}': the end of the interpolated expression
endsExpr(r, depth, inString) == r = RB /\ depth = 0 /\ ~inString

\* skipFormatStringExpr(delim): the loop, s at the next character to read
RECURSIVE skipLoop(_, _, _, _)
skipLoop(s, delim, depth, inString) ==
    IF AtEnd(s) THEN fail(s, "end of input")
    ELSE LET r == peek(s)
             t == advance(s)
         IN CASE r = delim -> failat(t.pos, "end of string in interpolated expression")
              [] r = NL -> failat(t.pos, "newline in interpolated expression")
              [] r = BS -> failat(t.pos, "interpolated expression cannot contain a backslash")
              [] r \in {SQ, DQ} /\ r # delim -> skipLoop(t, delim, depth, ~inString)
              [] r = RB /\ endsExpr(r, depth, inString) -> [ok |-> TRUE, s |-> t]
              [] r = RB /\ ~endsExpr(r, depth, inString) ->
                    skipLoop(t, delim, IF ~inString THEN depth - 1 ELSE depth, inString)
              [] r = LB -> skipLoop(t, delim, IF ~inString THEN depth + 1 ELSE depth, inString)
              [] OTHER -> skipLoop(t, delim, depth, inString)

skipFormatStringExpr(s, delim) == skipLoop(s, delim, 0, FALSE)

\* Scanner.ident: the letters from mark on
RECURSIVE identEnd(_, _)
identEnd(input, cur) ==
    IF cur < Len(input) /\ input[cur + 1] \in Letters THEN identEnd(input, cur + 1) ELSE cur

ident(s) ==
    LET cur == identEnd(s.input, s.mark)
    IN IF cur > s.mark THEN token([s EXCEPT !.pos = cur], "Ident")
       ELSE fail(s, "invalid identifier")

\* stringLit: the delimiters that follow the first
RECURSIVE matchDelims(_, _, _)
matchDelims(s, delim, ndelim) ==
    IF ~AtEnd(s) /\ peek(s) = delim THEN matchDelims(advance(s), delim, ndelim + 1)
    ELSE [s |-> s, ndelim |-> ndelim]

RECURSIVE NextToken(_)
RECURSIVE ScanLoop(_, _)
RECURSIVE onelineLoop(_, _, _, _, _)

\* Scanner.ScanAll: the tokens up to EndOfInput, or the first error
ScanLoop(s, r) ==
    LET n == NextToken(s)
    IN IF ~n.ok THEN n
       ELSE IF n.tok.Typ = "EndOfInput" THEN [ok |-> TRUE, toks |-> Append(r, n.tok)]
       ELSE ScanLoop(n.s, Append(r, n.tok))

ScanAll(s) == ScanLoop(s, <<>>)

\* stringOneline(delim): the loop, with parts, partPos and the builder b
onelineLoop(s, delim, parts, partPos, b) ==
    IF AtEnd(s) THEN failat(s.pos, "end of input while scanning string literal")
    ELSE LET r == peek(s)
             t == advance(s)
         IN IF r = delim
            THEN IF Len(parts) > 0
                 THEN [ok |-> TRUE, s |-> t,
                       tok |-> [Typ |-> "FormatStrLiteral", Pos |-> tmark(t), End |-> tpos(t),
                                Val |-> <<>>,
                                Fmt |-> IF Len(b) > 0
                                        THEN Append(parts, FormatStrPart(b, partPos, tpos(t)))
                                        ELSE parts]]
                 ELSE tokenVal(t, "StrLiteral", b)
            ELSE IF r = NL THEN failat(t.pos, "unexpected newline in string literal")
            ELSE IF r = DOLLAR /\ peek(t) = LB
            THEN LET u == advance(t)
                     flushed == IF Len(b) > 0
                                THEN Append(parts, FormatStrPart(b, partPos, tpos(u)))
                                ELSE parts
                     exprStart == u.pos
                     sk == skipFormatStringExpr(u, delim)
                 IN IF ~sk.ok THEN sk
                    ELSE LET exprEnd == sk.s.pos - 1
                         IN IF exprStart = exprEnd
                            THEN onelineLoop(sk.s, delim, flushed, partPos, <<>>)
                            ELSE LET exprTokens == ScanAll(childScanner(sk.s, exprStart, exprEnd))
                                 IN IF ~exprTokens.ok THEN exprTokens
                                    ELSE onelineLoop(sk.s, delim,
                                             Append(flushed,
                                                    FormattedValue(exprTokens.toks, exprStart, exprEnd)),
                                             tpos(sk.s), <<>>)
            ELSE IF r = BS
            THEN LET e == peek(t)
                     u == advance(t)
                 IN IF e \in {DQ, SQ, BS, DOLLAR}
                    THEN onelineLoop(u, delim, parts, partPos, Append(b, e))
                    ELSE failat(u.pos, "invalid escape character")
            ELSE onelineLoop(t, delim, parts, partPos, Append(b, r))

stringOneline(s, delim) == onelineLoop(s, delim, <<>>, tpos(s), <<>>)

stringLit(s, delim) ==
    LET d == matchDelims(s, delim, 1)
    IN CASE d.ndelim = 1 -> stringOneline(d.s, delim)
         [] d.ndelim \in {2, 6} -> tokenVal(d.s, "StrLiteral", <<>>)
         [] d.ndelim = 3 -> fail(d.s, "multiline strings are not implemented yet")
         [] OTHER -> fail(d.s, "invalid string literal")

\* Scanner.NextToken, for the characters of the model
NextToken(s) ==
    IF AtEnd(s) THEN token(s, "EndOfInput")
    ELSE LET r == peek(s)
             t == advance(setMark(s))
         IN CASE r \in Letters -> ident(t)
              [] r = LB -> token(t, "LeftBrace")
              [] r = RB -> token(t, "RightBrace")
              [] r \in {DQ, SQ} -> stringLit(t, r)
              [] r \in {SP, NL} -> NextToken(t)
              [] OTHER -> fail(t, "invalid lexeme")

(***************************************************************************)
(* token.FileSet: each file added gets the range [base, base + size) of    *)
(* positions, base being the total size of the files added before it.     *)
(***************************************************************************)
RECURSIVE TotalSize(_)
TotalSize(fs) == IF fs = <<>> THEN 0 ELSE fs[1].size + TotalSize(Tail(fs))

AddFile(fs, name, size) == Append(fs, [name |-> name, base |-> TotalSize(fs), size |-> size])

\* FileSet.Position(pos): whether some file's range contains pos
Translates(fs, pos) == \E i \in DOMAIN fs : fs[i].base <= pos /\ pos < fs[i].base + fs[i].size

(***************************************************************************)
(* Scanning the root file: LoadModule adds the file to the FileSet and     *)
(* ParseModule scans its text; an error is formatted by FormattedError.    *)
(* The text is a single-delimited string that opens an interpolation.      *)
(***************************************************************************)
MaxBody == 4        \* characters after the opening of the interpolation
BodyChars == {DQ, SQ, LB, RB, BS, NL, SP} \cup Letters
Bodies == UNION {[1..n -> BodyChars] : n \in 0..MaxBody}
Opening == <<DQ, DOLLAR, LB>>
ExprStart == Len(Opening)      \* offset of the first character after the opening

Inputs ==
    {Opening \o b \o c : b \in Bodies, c \in {<<>>, <<DQ>>}}

InitScan ==
    /\ files = FS(Missing, Missing, Missing)
    /\ frames = GlobalCtx
    /\ recs = <<>>
    /\ nclos = 0
    /\ modules = EmptyMap
    /\ filestack = <<>>
    /\ ctl \in {[m |-> "input", input |-> i] : i \in Inputs}
    /\ kont = <<>>
    /\ evalOK = {}
    /\ evalBegun = <<>>
    /\ types = GlobalCtxTypes
    /\ typs = <<>>

\* LoadModule: ctx.addFile(filename, len(input)), then ParseModule scans the input
ScanInput ==
    /\ ctl.m = "input"
    /\ ctl' = [m |-> "scanned", input |-> ctl.input,
               fileset |-> AddFile(<<>>, RootFile, Len(ctl.input)),
               res |-> ScanAll(NewScanner(ctl.input))]
    /\ UNCHANGED <<files, frames, recs, nclos, modules, filestack, kont, evalOK, evalBegun,
                   types, typs>>

\* FormattedError, case *ScanError: the position is translated, or the panic
FormattedError ==
    /\ ctl.m = "scanned" /\ ~ctl.res.ok
    /\ ctl' = IF Translates(ctl.fileset, ctl.res.pos)
              THEN [m |-> "formatted", input |-> ctl.input, msg |-> ctl.res.msg]
              ELSE Panic("cannot translate position")
    /\ UNCHANGED <<files, frames, recs, nclos, modules, filestack, kont, evalOK, evalBegun,
                   types, typs>>

NextScan ==
    \/ ScanInput
    \/ FormattedError

ScanSpec == InitScan /\ [][NextScan]_vars

(***************************************************************************)
(* Interpolations (stringOneline, skipFormatStringExpr).                   *)
(***************************************************************************)
\* The input has been scanned.
Scanned == ctl.m = "scanned"

\* The character at offset i of the input (counted from 0).
CharAt(i) == ctl.input[i + 1]
Offsets == ExprStart..(Len(ctl.input) - 1)

\* Offset i lies in a string nested in the interpolation: an odd number of
\* quote characters of the other kind precedes it.
InNested(i) == Cardinality({j \in ExprStart..(i - 1) : CharAt(j) = SQ}) % 2 = 1

\* The brace-nesting depth at offset i: the braces before it outside nested
\* strings, the opening ones less the closing ones.
DepthAt(i) ==
    Cardinality({j \in ExprStart..(i - 1) : CharAt(j) = LB /\ ~InNested(j)})
    - Cardinality({j \in ExprStart..(i - 1) : CharAt(j) = RB /\ ~InNested(j)})

\* The closing braces at depth 0 outside nested strings, and the characters
\* that an interpolation must not contain.
Closers == {i \in Offsets : CharAt(i) = RB /\ DepthAt(i) = 0 /\ ~InNested(i)}
Forbidden == {i \in Offsets : CharAt(i) \in {DQ, BS, NL}}
Least(S) == CHOOSE i \in S : \A j \in S : i <= j
Closes == Closers # {} /\ \A j \in Forbidden : Least(Closers) < j

ForbiddenMsg(c) ==
    CASE c = DQ -> "end of string in interpolated expression"
      [] c = NL -> "newline in interpolated expression"
      [] c = BS -> "interpolated expression cannot contain a backslash"

\* The token of the string holds, as its first part, the region from ExprStart
\* to offset e as a token sequence of its own that ends in EndOfInput.
Delivers(e) ==
    LET t == ctl.res.toks[1]
    IN /\ t.Typ = "FormatStrLiteral" /\ t.Fmt # <<>>
       /\ t.Fmt[1].kind = "value" /\ t.Fmt[1].Pos = ExprStart /\ t.Fmt[1].End = e
       /\ t.Fmt[1].Tokens # <<>>
       /\ t.Fmt[1].Tokens[Len(t.Fmt[1].Tokens)].Typ = "EndOfInput"
       /\ \A k \in 1..(Len(t.Fmt[1].Tokens) - 1) : t.Fmt[1].Tokens[k].Typ # "EndOfInput"

\* The scan fails on what the interpolation must not contain, before it ends.
FailsOnForbidden ==
    ~Closes /\ Forbidden # {}
        => ~ctl.res.ok /\ ctl.res.msg = ForbiddenMsg(CharAt(Least(Forbidden)))

\* C27 as stated: ${ starts an interpolation that ends at the first } at depth 0
\* outside a nested string of the other quote; the enclosing delimiter, a
\* backslash or a newline inside it is a scan error; every interpolated region
\* of a string that scans is delivered as its own token sequence ending in
\* EndOfInput.
C27_EveryRegionDelivered ==
    Scanned => /\ FailsOnForbidden
               /\ Closes /\ ctl.res.ok => Delivers(Least(Closers))

\* C27, amended: as above, for every interpolated region that is not empty.
C27_NonEmptyRegionDelivered ==
    Scanned => /\ FailsOnForbidden
               /\ Closes /\ ctl.res.ok /\ Least(Closers) > ExprStart => Delivers(Least(Closers))
               /\ Closes /\ ctl.res.ok /\ Least(Closers) = ExprStart
                    => \A k \in DOMAIN ctl.res.toks[1].Fmt : ctl.res.toks[1].Fmt[k].kind # "value"

\* The string "${{a}}" has been scanned: its region {a} holds a closing brace
\* at depth 1 and is delivered as four tokens.
C27_Witness ==
    /\ Scanned /\ ctl.res.ok /\ Closes /\ Least(Closers) > ExprStart
    /\ \E i \in Offsets : CharAt(i) = RB /\ i < Least(Closers) /\ ~InNested(i)
    /\ Len(ctl.res.toks[1].Fmt[1].Tokens) = 4

(***************************************************************************)
(* Positions of errors (FormattedError).                                   *)
(***************************************************************************)
\* C24: every error of a positioned phase carries a position that the FileSet
\* translates: the position of the ScanError of the root file lies in a file of
\* the FileSet, and formatting it never meets an untranslatable position.
C24_ErrorPositionTranslates ==
    /\ Scanned /\ ~ctl.res.ok => Translates(ctl.fileset, ctl.res.pos)
    /\ ctl.m # "panic"

\* The scan of an unterminated string has failed at the end of the input.
C24_ErrorAtEndOfInput ==
    Scanned /\ ~ctl.res.ok /\ ctl.res.pos = Len(ctl.input)

================================================================================
